---- MODULE Spec2Model ----
(***************************************************************************)
(* Mairie Radar: the coordination layer.                                   *)
(*   - ETLPipeline.run       (src/maire/maire/etl/base.py)                 *)
(*   - RAGPipeline.query / batch_query (src/maire/maire/rag/base.py)       *)
(*   - CoordinatorAgent      (src/maire/maire/agents/base.py)              *)
(* The pluggable stages (collectors, validators, loaders, retriever,       *)
(* generator) are abstract in the source: every call to one of them is a   *)
(* nondeterministic choice among the outcomes a stage can produce          *)
(* (a returned value or a raised Exception).                               *)
(***************************************************************************)
EXTENDS Integers, Sequences, FiniteSets, TLC

VARIABLES
    \* ---- ETLPipeline ----
    collectors,           \* self.collectors
    parsers,              \* self.parsers
    validators,           \* self.validators
    loaders,              \* self.loaders
    epc,                  \* position of run(): idle, collect, validate, load, done
    ci,                   \* index of the collector the loop is at
    di,                   \* index of the document the validation loop is at
    vi,                   \* index of the validator the inner loop is at
    li,                   \* index of the loader the loop is at
    all_documents,        \* run(): all_documents
    validated_documents,  \* run(): validated_documents
    results,              \* run(): results
    etl_ret,              \* what run() handed to its caller
    calls,                \* history: every stage call made by run(), with its outcome
    \* ---- RAGPipeline ----
    rmode,                \* the entry point in progress: none, query, batch
    queries,              \* batch_query(): queries (query(): the one query)
    rerank,               \* the rerank keyword argument
    qi,                   \* index of the query the batch loop is at
    rpc,                  \* position of query(): idle, retrieve, rerank, generate, confidence, done
    retrieved_docs,       \* query(): retrieved_docs
    answer,               \* query(): answer
    responses,            \* batch_query(): responses
    rag_ret,              \* what the entry point handed to its caller
    rcalls,               \* history: every retriever/generator call, with its outcome
    \* ---- CoordinatorAgent ----
    registered_agents,    \* self.registered_agents: the entries, in the dict's order
    active_workflows,     \* self.active_workflows: workflow id -> workflow
    coord_ret,            \* what the last call handed to its caller
    dispatched,           \* the task messages created by the call that just returned
    \* ---- the agents' entry points ----
    llm,                  \* TestAgent: self.llm
    last_call,            \* the entry point last called: its argument and what it handed back
    \* ---- BaseAgent.run ----
    message_queue,        \* self.message_queue
    self_status,          \* self.status
    run_pc,               \* position of run(): start, receive, process, send, periodic, sleep, ended
    run_end,              \* how run() ended: "" while it has not, raised, cancelled
    posted,               \* number of messages put into the mailbox so far
    handled,              \* ids of the messages handed to process_message, in order
    iter,                 \* the loop iteration in progress, or the last one: what it did
    \* ---- Message serialisation ----
    original,             \* a Message
    as_dict,              \* original.to_dict()
    parsed,               \* the Message built from the fields of as_dict
    \* ---- CoordinatorAgent under concurrent coroutines ----
    registry,             \* self.registered_agents, each field with the call that wrote it
    register_calls,       \* number of register_agent calls made so far
    flows,                \* the orchestrate_workflow coroutines: where each stands
    views,                \* what the last find_capable_agent of each coroutine saw
    \* ---- AgentRegistry.start_all ----
    registry_agents,      \* self.agents: the agent ids, in the dict's order
    started_tasks,        \* the tasks start_all created, one per agent: where each run() stands
    start_all_pc          \* position of start_all: idle, gather, returned, raised, cancelled

etl_vars == <<collectors, parsers, validators, loaders, epc, ci, di, vi, li,
              all_documents, validated_documents, results, etl_ret, calls>>

rag_vars == <<rmode, queries, rerank, qi, rpc, retrieved_docs, answer, responses,
              rag_ret, rcalls>>

coord_vars == <<registered_agents, active_workflows, coord_ret, dispatched>>

agent_vars == <<llm, last_call>>

run_vars == <<message_queue, self_status, run_pc, run_end, posted, handled, iter>>

msg_vars == <<original, as_dict, parsed>>

conc_vars == <<registry, register_calls, flows, views>>

start_vars == <<registry_agents, started_tasks, start_all_pc>>

vars == <<etl_vars, rag_vars, coord_vars, agent_vars, run_vars, msg_vars, conc_vars,
          start_vars>>

\* What the operations of one class leave alone: the objects of the others.
not_etl_vars == <<rag_vars, coord_vars, agent_vars, run_vars, msg_vars, conc_vars,
    start_vars>>
not_rag_vars == <<etl_vars, coord_vars, agent_vars, run_vars, msg_vars, conc_vars,
    start_vars>>
not_coord_vars == <<etl_vars, rag_vars, agent_vars, run_vars, msg_vars, conc_vars,
    start_vars>>
not_agent_vars == <<etl_vars, rag_vars, run_vars, msg_vars, conc_vars,
    start_vars>>
not_run_vars == <<etl_vars, rag_vars, coord_vars, agent_vars, msg_vars, conc_vars,
    start_vars>>
not_conc_vars == <<etl_vars, rag_vars, coord_vars, agent_vars, run_vars, msg_vars,
    start_vars>>
not_msg_vars == <<etl_vars, rag_vars, coord_vars, agent_vars, run_vars, conc_vars,
    start_vars>>
not_start_vars == <<etl_vars, rag_vars, coord_vars, agent_vars, run_vars, msg_vars, conc_vars>>

(***************************************************************************)
(* Bounds of the model                                                     *)
(***************************************************************************)
MaxCollectors == 2
MaxValidators == 2
MaxLoaders == 2

\* Parsers registered before a run (run() has no loop over them).
MaxParsers == 2
MaxQueries == 2
MaxTasks == 2

\* Messages put into an agent's mailbox.
MaxMessages == 3

\* register_agent calls running beside the workflows.
MaxRegistrations == 3

\* Agents held by the AgentRegistry, and loop iterations of each agent's run().
MaxAgents == 2
MaxIterations == 2

\* The documents collectors emit, and the lists one collect call may return:
\* empty, one document (either of the two, so that two collectors can emit
\* different documents), two documents.
Docs == {"d1", "d2"}
Emissions == {<<>>, <<"d1">>, <<"d2">>, <<"d2", "d1">>}

\* The working set of one run is kept to as many documents as there are
\* distinct ones (a document may still occur twice in it).
DocCap == Cardinality(Docs)

\* The lists get_validation_errors may return: nothing, or several strings.
ErrLists == {<<>>, <<"e1", "e2">>}

NoRet == [kind |-> "none"]

(***************************************************************************)
(* Helpers                                                                 *)
(***************************************************************************)
RECURSIVE SumLen(_)
SumLen(s) == IF s = <<>> THEN 0 ELSE Len(Head(s)) + SumLen(Tail(s))

\* One error string of results['errors'].
ErrorMsg(kind, who, text) == [kind |-> kind, who |-> who, text |-> text]

\* One entry of the call history.
Call(stage, idx, doc, kind, val) ==
    [stage |-> stage, idx |-> idx, doc |-> doc, kind |-> kind, val |-> val]

(***************************************************************************)
(* ETLPipeline                                                             *)
(***************************************************************************)
EtlInit ==
    /\ collectors = <<>>
    /\ parsers = <<>>
    /\ validators = <<>>
    /\ loaders = <<>>
    /\ epc = "idle"
    /\ ci = 0 /\ di = 0 /\ vi = 0 /\ li = 0
    /\ all_documents = <<>>
    /\ validated_documents = <<>>
    /\ results = [collected |-> 0, parsed |-> 0, validated |-> 0, loaded |-> 0,
                  errors |-> <<>>]
    /\ etl_ret = NoRet
    /\ calls = <<>>

\* A registered stage is identified by its registration ordinal, which is
\* also the name the error strings carry.
add_collector ==
    /\ epc = "idle"
    /\ Len(collectors) < MaxCollectors
    /\ collectors' = Append(collectors, Len(collectors) + 1)
    /\ UNCHANGED <<parsers, validators, loaders, epc, ci, di, vi, li, all_documents,
                   validated_documents, results, etl_ret, calls>>
    /\ UNCHANGED not_etl_vars

add_parser ==
    /\ epc = "idle"
    /\ Len(parsers) < MaxParsers
    /\ parsers' = Append(parsers, Len(parsers) + 1)
    /\ UNCHANGED <<collectors, validators, loaders, epc, ci, di, vi, li, all_documents,
                   validated_documents, results, etl_ret, calls>>
    /\ UNCHANGED not_etl_vars

add_validator ==
    /\ epc = "idle"
    /\ Len(validators) < MaxValidators
    /\ validators' = Append(validators, Len(validators) + 1)
    /\ UNCHANGED <<collectors, parsers, loaders, epc, ci, di, vi, li, all_documents,
                   validated_documents, results, etl_ret, calls>>
    /\ UNCHANGED not_etl_vars

add_loader ==
    /\ epc = "idle"
    /\ Len(loaders) < MaxLoaders
    /\ loaders' = Append(loaders, Len(loaders) + 1)
    /\ UNCHANGED <<collectors, parsers, validators, epc, ci, di, vi, li, all_documents,
                   validated_documents, results, etl_ret, calls>>
    /\ UNCHANGED not_etl_vars

\* run(): results = {...}; try: all_documents = []; the collector loop starts.
run_begin ==
    /\ epc = "idle"
    /\ epc' = "collect"
    /\ ci' = 1
    /\ all_documents' = <<>>
    /\ results' = [collected |-> 0, parsed |-> 0, validated |-> 0, loaded |-> 0,
                   errors |-> <<>>]
    /\ UNCHANGED <<collectors, parsers, validators, loaders, di, vi, li,
                   validated_documents, etl_ret, calls>>
    /\ UNCHANGED not_etl_vars

\* Mutant of RunExcept: the outer handler re-raises instead of returning.
RunExcept_reraise(res) == [kind |-> "raised", value |-> res]

\* The outer "except Exception as e": results['errors'].append("ETL pipeline
\* failed: <e>"); return results. The value is what run() hands to its caller.
RunExcept(res) ==
    [kind |-> "returned",
     value |-> [res EXCEPT !.errors = Append(@, ErrorMsg("pipeline", 0, "ETL pipeline failed"))]]

\* What one collector.collect call can do: return a list, or raise.
CollectOutcomes ==
    [kind : {"ok"}, val : Emissions] \cup [kind : {"raise"}, val : {<<>>}]

\* Mutant of CollectTry: the count is assigned, not accumulated.
CollectTry_assign(docs, res, out) ==
    [docs |-> docs \o out.val, res |-> [res EXCEPT !.collected = Len(out.val)]]

\* Mutant of CollectTry: the returned list is put in front of the working set.
CollectTry_prepend(docs, res, out) ==
    [docs |-> out.val \o docs, res |-> [res EXCEPT !.collected = @ + Len(out.val)]]

\* Mutant of CollectTry: the collected documents are counted as parsed too.
CollectTry_parsed(docs, res, out) ==
    [docs |-> docs \o out.val,
     res |-> [res EXCEPT !.collected = @ + Len(out.val), !.parsed = @ + Len(out.val)]]

\* try: documents = await collector.collect(); all_documents.extend(documents);
\*      results['collected'] += len(documents)
CollectTry(docs, res, out) ==
    [docs |-> docs \o out.val, res |-> [res EXCEPT !.collected = @ + Len(out.val)]]

\* except Exception as e: results['errors'].append("Collection failed for <name>: <e>")
CollectExcept(docs, res, name) ==
    [docs |-> docs,
     res |-> [res EXCEPT !.errors = Append(@, ErrorMsg("collect", name, "Collection failed"))]]

\* One iteration of "for collector in self.collectors".
collect_call(out) ==
    /\ epc = "collect"
    /\ ci <= Len(collectors)
    /\ Len(all_documents) + Len(out.val) <= DocCap
    /\ calls' = Append(calls, Call("collect", ci, 0, out.kind, out.val))
    /\ LET t == IF out.kind = "ok" THEN CollectTry(all_documents, results, out)
                ELSE CollectExcept(all_documents, results, collectors[ci])
       IN /\ all_documents' = t.docs
          /\ results' = t.res
    /\ ci' = ci + 1
    /\ UNCHANGED <<collectors, parsers, validators, loaders, epc, di, vi, li,
                   validated_documents, etl_ret>>
    /\ UNCHANGED not_etl_vars

\* The collector loop is exhausted: validated_documents = []; the document loop starts.
collect_end ==
    /\ epc = "collect"
    /\ ci > Len(collectors)
    /\ epc' = "validate"
    /\ di' = 1
    /\ vi' = 1
    /\ validated_documents' = <<>>
    /\ UNCHANGED <<collectors, parsers, validators, loaders, ci, li, all_documents,
                   results, etl_ret, calls>>
    /\ UNCHANGED not_etl_vars

\* What one validator can do on one document: validate returns true; validate
\* returns false and get_validation_errors returns a list; or an exception is
\* raised inside the guard (by validate, or by get_validation_errors after
\* validate returned false: both land in the same handler).
ValidateOutcomes ==
    [kind : {"true"}, val : {<<>>}]
        \cup [kind : {"false"}, val : ErrLists]
        \cup [kind : {"raise"}, val : {<<>>}]

\* errors = validator.get_validation_errors(document); results['errors'].extend(errors)
ValidateRejected(res, name, errs) ==
    [res EXCEPT !.errors = @ \o [k \in 1..Len(errs) |-> ErrorMsg("reported", name, errs[k])]]

\* Mutant of ValidateExcept: the string is put at the front of the list.
ValidateExcept_front(res, name) ==
    [res EXCEPT !.errors = <<ErrorMsg("validate", name, "Validation failed")>> \o @]

\* except Exception as e: results['errors'].append("Validation failed for <name>: <e>")
ValidateExcept(res, name) ==
    [res EXCEPT !.errors = Append(@, ErrorMsg("validate", name, "Validation failed"))]

\* Mutant of ValidateAdvance: a rejection does not break out of the chain.
ValidateAdvance_nobreak(d, v, out) == [di |-> d, vi |-> v + 1]

\* Where the loops stand after validator vi answered for document di: the next
\* validator of the same document after a true, the next document after a
\* rejection or an exception (is_valid = False; break).
ValidateAdvance(d, v, out) ==
    IF out.kind = "true" THEN [di |-> d, vi |-> v + 1] ELSE [di |-> d + 1, vi |-> 1]

\* One iteration of "for validator in self.validators" for the current document.
validate_call(out) ==
    /\ epc = "validate"
    /\ di <= Len(all_documents)
    /\ vi <= Len(validators)
    /\ calls' = Append(calls, Call("validate", vi, di, out.kind, out.val))
    /\ results' = CASE out.kind = "true" -> results
                    [] out.kind = "false" ->
                         ValidateRejected(results, validators[vi], out.val)
                    [] OTHER -> ValidateExcept(results, validators[vi])
    /\ LET n == ValidateAdvance(di, vi, out)
       IN /\ di' = n.di
          /\ vi' = n.vi
    /\ UNCHANGED <<collectors, parsers, validators, loaders, epc, ci, li, all_documents,
                   validated_documents, etl_ret>>
    /\ UNCHANGED not_etl_vars

\* if is_valid: validated_documents.append(document); results['validated'] += 1
\* (reached only when no validator of the chain broke out of the inner loop)
validate_accept ==
    /\ epc = "validate"
    /\ di <= Len(all_documents)
    /\ vi > Len(validators)
    /\ validated_documents' = Append(validated_documents, all_documents[di])
    /\ results' = [results EXCEPT !.validated = @ + 1]
    /\ di' = di + 1
    /\ vi' = 1
    /\ UNCHANGED <<collectors, parsers, validators, loaders, epc, ci, li, all_documents,
                   etl_ret, calls>>
    /\ UNCHANGED not_etl_vars

ValidationOver_early(d, docs) == d >= Len(docs)

\* "for document in all_documents" is exhausted once the loop has gone past
\* the last document.
ValidationOver(d, docs) == d > Len(docs)

FirstLoader_unless_empty(validated) == IF validated = <<>> THEN Len(loaders) + 1 ELSE 1

\* "for loader in self.loaders" starts at the first loader, whatever the
\* validated set holds.
FirstLoader(validated) == 1

\* The document loop is exhausted: the loader loop starts.
validate_end ==
    /\ epc = "validate"
    /\ ValidationOver(di, all_documents)
    /\ epc' = "load"
    /\ li' = FirstLoader(validated_documents)
    /\ UNCHANGED <<collectors, parsers, validators, loaders, ci, di, vi, all_documents,
                   validated_documents, results, etl_ret, calls>>
    /\ UNCHANGED not_etl_vars

\* What one loader.load call can do: return true, return false, or raise.
LoadOutcomes == {"true", "false", "raise"}

\* Mutant of LoadTry: the count is that of the last successful loader only.
LoadTry_last(res, docs) == [res EXCEPT !.loaded = Len(docs)]

\* if await loader.load(validated_documents): results['loaded'] += len(validated_documents)
LoadTry(res, docs) == [res EXCEPT !.loaded = @ + Len(docs)]

\* else: results['errors'].append("Loading failed for <name>")
\* except Exception as e: results['errors'].append("Loading failed for <name>: <e>")
LoadFailed(res, name, kind) ==
    [res EXCEPT !.errors = Append(@, ErrorMsg("load", name,
        IF kind = "false" THEN "Loading failed" ELSE "Loading failed: exception"))]

\* Mutant of LoadAdvance: a raising loader ends the loader loop.
LoadAdvance_stop(l, kind) == IF kind = "raise" THEN Len(loaders) + 1 ELSE l + 1

\* Where the loader loop stands after loader l answered: always the next loader.
LoadAdvance(l, kind) == l + 1

LoaderInput_collected(collected, validated) == collected

\* What loader.load is called with: validated_documents.
LoaderInput(collected, validated) == validated

\* One iteration of "for loader in self.loaders".
load_call(kind) ==
    /\ epc = "load"
    /\ li <= Len(loaders)
    /\ calls' = Append(calls, Call("load", li, 0, kind,
                                   LoaderInput(all_documents, validated_documents)))
    /\ results' = IF kind = "true" THEN LoadTry(results, validated_documents)
                  ELSE LoadFailed(results, loaders[li], kind)
    /\ li' = LoadAdvance(li, kind)
    /\ UNCHANGED <<collectors, parsers, validators, loaders, epc, ci, di, vi,
                   all_documents, validated_documents, etl_ret>>
    /\ UNCHANGED not_etl_vars

\* The loader loop is exhausted: self.logger.info("ETL pipeline completed",
\* **results); return results.
run_return ==
    /\ epc = "load"
    /\ li > Len(loaders)
    /\ calls' = Append(calls, Call("log", 0, 0, "ok", <<>>))
    /\ epc' = "done"
    /\ etl_ret' = [kind |-> "returned", value |-> results]
    /\ UNCHANGED <<collectors, parsers, validators, loaders, ci, di, vi, li,
                   all_documents, validated_documents, results>>
    /\ UNCHANGED not_etl_vars

\* The closing log call (line 208) is the one statement of run() outside every
\* per-stage try block that calls out of run(): it hands the whole summary to
\* the logger as keyword arguments. When it raises, the outer handler records
\* the failure and run() returns the summary. (An exception raised inside a
\* per-stage try block is that stage's "raise" outcome.)
run_fault ==
    /\ epc = "load"
    /\ li > Len(loaders)
    /\ calls' = Append(calls, Call("log", 0, 0, "raise", <<>>))
    /\ epc' = "done"
    /\ etl_ret' = RunExcept(results)
    /\ results' = IF etl_ret'.kind = "returned" THEN etl_ret'.value ELSE results
    /\ UNCHANGED <<collectors, parsers, validators, loaders, ci, di, vi, li,
                   all_documents, validated_documents>>
    /\ UNCHANGED not_etl_vars

EtlNext ==
    \/ add_collector
    \/ add_parser
    \/ add_validator
    \/ add_loader
    \/ run_begin
    \/ \E out \in CollectOutcomes : collect_call(out)
    \/ collect_end
    \/ \E out \in ValidateOutcomes : validate_call(out)
    \/ validate_accept
    \/ validate_end
    \/ \E kind \in LoadOutcomes : load_call(kind)
    \/ run_return
    \/ run_fault

(***************************************************************************)
(* RAGPipeline                                                             *)
(***************************************************************************)
Queries == {"q1", "q2"}

\* The lists retrieve may return: nothing, one result, two results.
RetrievalLists == {<<>>, <<"r1">>, <<"r1", "r2">>}

Reverse(s) == [k \in 1..Len(s) |-> s[Len(s) + 1 - k]]

\* The lists a rerank hook may return for a list: the same order, the reverse
\* order, a truncated list, a longer list.
RerankLists(docs) ==
    {docs, Reverse(docs), SubSeq(docs, 1, Len(docs) - 1), Append(docs, "r9")}

Answers == {"a1"}
Confidences == {"0.9"}

\* All lists of queries of length at most n.
RECURSIVE QueryLists(_)
QueryLists(n) ==
    IF n = 0 THEN {<<>>}
    ELSE LET shorter == QueryLists(n - 1)
         IN shorter \cup {Append(qs, q) : qs \in {x \in shorter : Len(x) = n - 1}, q \in Queries}

\* One entry of the history: the stage called for query number q, the context
\* list passed to it, and what it returned (a list or a text) or that it raised.
RCall(q, stage, kind, arg, docs, text) ==
    [q |-> q, stage |-> stage, kind |-> kind, arg |-> arg, docs |-> docs, text |-> text]

\* str(e) of the exception a stage raised.
ExcText(stage) ==
    CASE stage = "retrieve" -> "retrieve failed"
      [] stage = "rerank" -> "rerank failed"
      [] stage = "generate" -> "generate failed"
      [] OTHER -> "estimate_confidence failed"

\* f"Error processing query: {str(e)}"
ErrorAnswer(stage) ==
    CASE stage = "retrieve" -> "Error processing query: retrieve failed"
      [] stage = "rerank" -> "Error processing query: rerank failed"
      [] stage = "generate" -> "Error processing query: generate failed"
      [] OTHER -> "Error processing query: estimate_confidence failed"

\* RAGResponse(query, answer, sources, confidence, metadata)
RAGResponse(q, a, srcs, conf, meta) ==
    [query |-> q, answer |-> a, sources |-> srcs, confidence |-> conf, metadata |-> meta]

RagInit ==
    /\ rmode = "none"
    /\ queries = <<>>
    /\ rerank = TRUE
    /\ qi = 0
    /\ rpc = "idle"
    /\ retrieved_docs = <<>>
    /\ answer = ""
    /\ responses = <<>>
    /\ rag_ret = NoRet
    /\ rcalls = <<>>

QueryExcept_swallow(stage) ==
    [kind |-> "returned", stage |-> stage,
     value |-> RAGResponse(queries[qi], "", <<>>, "0.0", [error |-> ExcText(stage)])]

\* query(): the except clause logs and re-raises the exception of the stage.
QueryExcept(stage) == [kind |-> "raised", stage |-> stage, value |-> ExcText(stage)]

\* batch_query(): except Exception as e: the substitute response.
BatchExcept(q, stage) ==
    RAGResponse(q, ErrorAnswer(stage), <<>>, "0.0", [error |-> ExcText(stage)])

\* Mutant of BatchAdvance: the query after the one that ended is passed over.
BatchAdvance_skip(i, ok) == i + 2

BatchAdvance_break(i, ok) == IF ok THEN i + 1 ELSE Len(queries) + 1

\* batch_query(): where the loop over queries goes after query number i ended
\* (ok says whether it returned): always to the next query.
BatchAdvance(i, ok) == i + 1

NeedsRerank_flag_only(flag, docs) == flag

\* query(): if rerank and len(retrieved_docs) > 1
NeedsRerank(flag, docs) == flag /\ Len(docs) > 1

\* The call of query() for the current query ended: out is what it returned
\* or raised. A direct call hands it to the caller; batch_query appends the
\* response, or the substitute response, and goes on.
QueryEnds(out) ==
    IF rmode = "query"
    THEN /\ rag_ret' = out
         /\ rpc' = "done"
         /\ UNCHANGED <<responses, qi>>
    ELSE LET resp == IF out.kind = "returned" THEN out.value
                     ELSE BatchExcept(queries[qi], out.stage)
             next == BatchAdvance(qi, out.kind = "returned")
         IN /\ responses' = Append(responses, resp)
            /\ qi' = next
            /\ IF next > Len(queries)
               THEN /\ rag_ret' = [kind |-> "returned", value |-> responses']
                    /\ rpc' = "done"
               ELSE /\ rpc' = "retrieve"
                    /\ UNCHANGED rag_ret

\* A stage raised: the except clause of query() re-raises.
QueryRaises(stage) == QueryEnds(QueryExcept(stage))

\* A direct call query(q, rerank=flag).
query_begin(q, flag) ==
    /\ rpc = "idle"
    /\ rmode' = "query"
    /\ queries' = <<q>>
    /\ rerank' = flag
    /\ qi' = 1
    /\ rpc' = "retrieve"
    /\ UNCHANGED <<retrieved_docs, answer, responses, rag_ret, rcalls>>
    /\ UNCHANGED not_rag_vars

\* batch_query(qs, rerank=flag): responses = []; the loop starts, or, over an
\* empty list, returns at once.
batch_begin(qs, flag) ==
    /\ rpc = "idle"
    /\ rmode' = "batch"
    /\ queries' = qs
    /\ rerank' = flag
    /\ qi' = 1
    /\ responses' = <<>>
    /\ IF qs = <<>>
       THEN /\ rpc' = "done"
            /\ rag_ret' = [kind |-> "returned", value |-> <<>>]
       ELSE /\ rpc' = "retrieve"
            /\ UNCHANGED rag_ret
    /\ UNCHANGED <<retrieved_docs, answer, rcalls>>
    /\ UNCHANGED not_rag_vars

\* retrieved_docs = await self.retriever.retrieve(query=query, ...)
retrieve_ok(docs) ==
    /\ rpc = "retrieve"
    /\ rcalls' = Append(rcalls, RCall(qi, "retrieve", "ok", <<>>, docs, ""))
    /\ retrieved_docs' = docs
    /\ rpc' = IF NeedsRerank(rerank, docs) THEN "rerank" ELSE "generate"
    /\ UNCHANGED <<rmode, queries, rerank, qi, answer, responses, rag_ret>>
    /\ UNCHANGED not_rag_vars

retrieve_raise ==
    /\ rpc = "retrieve"
    /\ rcalls' = Append(rcalls, RCall(qi, "retrieve", "raise", <<>>, <<>>, ""))
    /\ QueryRaises("retrieve")
    /\ UNCHANGED <<rmode, queries, rerank, retrieved_docs, answer>>
    /\ UNCHANGED not_rag_vars

Reranked_kept(before, after) == before

\* The assignment of rerank's result: it takes the place of the retrieved list.
Reranked(before, after) == after

\* retrieved_docs = await self.retriever.rerank(query, retrieved_docs)
rerank_ok(docs) ==
    /\ rpc = "rerank"
    /\ rcalls' = Append(rcalls, RCall(qi, "rerank", "ok", retrieved_docs, docs, ""))
    /\ retrieved_docs' = Reranked(retrieved_docs, docs)
    /\ rpc' = "generate"
    /\ UNCHANGED <<rmode, queries, rerank, qi, answer, responses, rag_ret>>
    /\ UNCHANGED not_rag_vars

rerank_raise ==
    /\ rpc = "rerank"
    /\ rcalls' = Append(rcalls, RCall(qi, "rerank", "raise", retrieved_docs, <<>>, ""))
    /\ QueryRaises("rerank")
    /\ UNCHANGED <<rmode, queries, rerank, retrieved_docs, answer>>
    /\ UNCHANGED not_rag_vars

\* answer = await self.generator.generate(query=query, context_documents=retrieved_docs)
generate_ok(a) ==
    /\ rpc = "generate"
    /\ rcalls' = Append(rcalls, RCall(qi, "generate", "ok", retrieved_docs, <<>>, a))
    /\ answer' = a
    /\ rpc' = "confidence"
    /\ UNCHANGED <<rmode, queries, rerank, qi, retrieved_docs, responses, rag_ret>>
    /\ UNCHANGED not_rag_vars

generate_raise ==
    /\ rpc = "generate"
    /\ rcalls' = Append(rcalls, RCall(qi, "generate", "raise", retrieved_docs, <<>>, ""))
    /\ QueryRaises("generate")
    /\ UNCHANGED <<rmode, queries, rerank, retrieved_docs, answer>>
    /\ UNCHANGED not_rag_vars

QueryResponse_reordered(q, a, docs, conf, flag) ==
    RAGResponse(q, a, Reverse(docs), conf, [rerank |-> flag])

\* The response query() assembles and returns.
QueryResponse(q, a, docs, conf, flag) ==
    RAGResponse(q, a, docs, conf, [rerank |-> flag])

\* confidence = await self.generator.estimate_confidence(...); response =
\* RAGResponse(...); return response
confidence_ok(conf) ==
    /\ rpc = "confidence"
    /\ rcalls' = Append(rcalls, RCall(qi, "confidence", "ok", retrieved_docs, <<>>, conf))
    /\ QueryEnds([kind |-> "returned", stage |-> "confidence",
                  value |-> QueryResponse(queries[qi], answer, retrieved_docs, conf, rerank)])
    /\ UNCHANGED <<rmode, queries, rerank, retrieved_docs, answer>>
    /\ UNCHANGED not_rag_vars

confidence_raise ==
    /\ rpc = "confidence"
    /\ rcalls' = Append(rcalls, RCall(qi, "confidence", "raise", retrieved_docs, <<>>, ""))
    /\ QueryRaises("confidence")
    /\ UNCHANGED <<rmode, queries, rerank, retrieved_docs, answer>>
    /\ UNCHANGED not_rag_vars

RagNext ==
    \/ \E q \in Queries, flag \in BOOLEAN : query_begin(q, flag)
    \/ \E qs \in QueryLists(MaxQueries), flag \in BOOLEAN : batch_begin(qs, flag)
    \/ \E docs \in RetrievalLists : retrieve_ok(docs)
    \/ retrieve_raise
    \/ \E docs \in RerankLists(retrieved_docs) : rerank_ok(docs)
    \/ rerank_raise
    \/ \E a \in Answers : generate_ok(a)
    \/ generate_raise
    \/ \E conf \in Confidences : confidence_ok(conf)
    \/ confidence_raise

(***************************************************************************)
(* CoordinatorAgent                                                        *)
(***************************************************************************)
\* Agent ids are strings; the empty string is Message.sender's default, which
\* process_message registers like any other sender.
AgentIds == {"", "a1"}

AgentStatus == {"IDLE", "BUSY", "ERROR", "OFFLINE"}

CapabilityNames == {"x", "y"}

\* Capability lists, by the names of their capabilities.
CapabilityLists == {<<>>, <<"x">>, <<"x", "y">>}

WorkflowIds == {"w1"}

\* Python's None, and a key a dict does not have.
None == "<None>"
Missing == "<missing>"

\* Task descriptors: dicts with a 'capability' and, unless it is missing, an 'id'.
Tasks ==
    {[id |-> "t1", capability |-> "x"], [id |-> "t2", capability |-> "y"],
     [id |-> Missing, capability |-> "x"]}

RECURSIVE TaskLists(_)
TaskLists(n) ==
    IF n = 0 THEN {<<>>}
    ELSE LET shorter == TaskLists(n - 1)
         IN shorter \cup {Append(ts, t) : ts \in {x \in shorter : Len(x) = n - 1}, t \in Tasks}

\* The task lists orchestrate_workflow is called with.
WorkflowTaskLists == TaskLists(MaxTasks)

CoordInit ==
    /\ registered_agents = <<>>
    /\ active_workflows = <<>>
    /\ coord_ret = NoRet
    /\ dispatched = <<>>

\* The position of agent_id among the dict's keys, 0 if it is not a key.
KeyIndex(agent_id) ==
    IF \E k \in DOMAIN registered_agents : registered_agents[k].agent_id = agent_id
    THEN CHOOSE k \in DOMAIN registered_agents : registered_agents[k].agent_id = agent_id
    ELSE 0

RegistryPut_merge(agent_id, capabilities) ==
    LET k == KeyIndex(agent_id)
    IN IF k = 0
       THEN Append(registered_agents,
                   [agent_id |-> agent_id, capabilities |-> capabilities, status |-> "IDLE"])
       ELSE [registered_agents EXCEPT
                ![k].capabilities = registered_agents[k].capabilities \o capabilities]

\* Mutant of RegistryPut: an existing key is taken out and put last.
RegistryPut_moved_last(agent_id, capabilities) ==
    Append(SelectSeq(registered_agents, LAMBDA e : e.agent_id # agent_id),
           [agent_id |-> agent_id, capabilities |-> capabilities, status |-> "IDLE"])

\* self.registered_agents[agent_id] = {...}: a new key goes last, an existing
\* key keeps its place and gets the new value.
RegistryPut(agent_id, capabilities) ==
    LET entry == [agent_id |-> agent_id, capabilities |-> capabilities, status |-> "IDLE"]
        k == KeyIndex(agent_id)
    IN IF k = 0 THEN Append(registered_agents, entry)
       ELSE [registered_agents EXCEPT ![k] = entry]

\* register_agent(agent_id, capabilities), called directly.
register_agent(agent_id, capabilities) ==
    /\ registered_agents' = RegistryPut(agent_id, capabilities)
    /\ coord_ret' = NoRet
    /\ dispatched' = <<>>
    /\ UNCHANGED active_workflows
    /\ UNCHANGED not_coord_vars

\* The registry is a public attribute and the coordinator never writes a status
\* after registration: who tracks the agents writes it from outside.
set_status(agent_id, status) ==
    /\ KeyIndex(agent_id) # 0
    /\ registered_agents' = [registered_agents EXCEPT ![KeyIndex(agent_id)].status = status]
    /\ coord_ret' = NoRet
    /\ dispatched' = <<>>
    /\ UNCHANGED active_workflows
    /\ UNCHANGED not_coord_vars

\* for capability in info['capabilities']: if capability.name == required_capability
HasCapability(info, required_capability) ==
    \E j \in DOMAIN info.capabilities : info.capabilities[j] = required_capability

\* The scan of find_capable_agent from position k of the registry on.
RECURSIVE ScanAgents(_, _)
ScanAgents(k, required_capability) ==
    IF k > Len(registered_agents) THEN None
    ELSE IF /\ HasCapability(registered_agents[k], required_capability)
            /\ registered_agents[k].status = "IDLE"
         THEN registered_agents[k].agent_id
         ELSE ScanAgents(k + 1, required_capability)

RECURSIVE ScanAgents_any_status(_, _)
ScanAgents_any_status(k, required_capability) ==
    IF k > Len(registered_agents) THEN None
    ELSE IF HasCapability(registered_agents[k], required_capability)
         THEN registered_agents[k].agent_id
         ELSE ScanAgents_any_status(k + 1, required_capability)

find_capable_agent_any_status(required_capability) ==
    ScanAgents_any_status(1, required_capability)

find_capable_agent(required_capability) == ScanAgents(1, required_capability)

\* Python's truth value of what find_capable_agent returned: None and the
\* empty string are false.
Truthy(agent_id) == agent_id # None /\ agent_id # ""

\* str(e) of the exceptions the loop over the tasks raises.
NoAgentError(required_capability) ==
    IF required_capability = "x" THEN "No agent found for capability: x"
    ELSE "No agent found for capability: y"

KeyErrorId == "'id'"

\* workflow['results'][task['id']] = {...}
RecordResult(res, task, agent_id) ==
    [t \in DOMAIN res \cup {task.id} |->
        IF t = task.id
        THEN [status |-> "completed", agent |-> agent_id, result |-> <<task.id, agent_id>>]
        ELSE res[t]]

\* The loop over the tasks from position k on, with the results recorded and
\* the task messages created so far: how the workflow ends.
RECURSIVE RunTasks(_, _, _, _)
RunTasks(tasks, k, res, msgs) ==
    IF k > Len(tasks)
    THEN [status |-> "completed", error |-> Missing, end_time |-> "now",
          results |-> res, msgs |-> msgs]
    ELSE LET required_capability == tasks[k].capability
             agent_id == find_capable_agent(required_capability)
             sent == Append(msgs, [position |-> k, receiver |-> agent_id])
         IN IF ~Truthy(agent_id)
            THEN [status |-> "failed", error |-> NoAgentError(required_capability),
                  end_time |-> Missing, results |-> res, msgs |-> msgs]
            ELSE IF tasks[k].id = Missing
            THEN [status |-> "failed", error |-> KeyErrorId,
                  end_time |-> Missing, results |-> res, msgs |-> sent]
            ELSE RunTasks(tasks, k + 1, RecordResult(res, tasks[k], agent_id), sent)

\* Mutant of EndedWorkflow: the end time is set however the loop ended.
EndedWorkflow_always_end_time(workflow_id, tasks, end) ==
    [id |-> workflow_id, tasks |-> tasks, results |-> end.results,
     status |-> end.status, error |-> end.error, end_time |-> "now"]

EndedWorkflow_results_reset(workflow_id, tasks, end) ==
    [id |-> workflow_id, tasks |-> tasks,
     results |-> IF end.status = "failed" THEN <<>> ELSE end.results,
     status |-> end.status, error |-> end.error, end_time |-> end.end_time]

\* The workflow dict as the call returns it, given how the loop ended.
EndedWorkflow(workflow_id, tasks, end) ==
    [id |-> workflow_id, tasks |-> tasks, results |-> end.results,
     status |-> end.status, error |-> end.error, end_time |-> end.end_time]

\* self.active_workflows[workflow_id] = workflow
WorkflowsPut(workflow_id, workflow) ==
    [w \in DOMAIN active_workflows \cup {workflow_id} |->
        IF w = workflow_id THEN workflow ELSE active_workflows[w]]

\* Mutant of RegistryAfterDispatch: the agents the tasks were sent to are BUSY.
RegistryAfterDispatch_busy(agents, msgs) ==
    [k \in DOMAIN agents |->
        IF \E m \in DOMAIN msgs : msgs[m].receiver = agents[k].agent_id
        THEN [agents[k] EXCEPT !.status = "BUSY"]
        ELSE agents[k]]

\* The registry after the loop over the tasks: the loop reads
\* self.registered_agents through find_capable_agent and never writes it.
RegistryAfterDispatch(agents, msgs) == agents

\* orchestrate_workflow(workflow_id, tasks): no statement of it suspends, so
\* the call is one step. The workflow is stored, the loop runs, the workflow is
\* returned completed or failed.
orchestrate_workflow(workflow_id, tasks) ==
    /\ LET end == RunTasks(tasks, 1, <<>>, <<>>)
       IN /\ active_workflows' = WorkflowsPut(workflow_id, EndedWorkflow(workflow_id, tasks, end))
          /\ coord_ret' = [kind |-> "workflow", value |-> EndedWorkflow(workflow_id, tasks, end)]
          /\ dispatched' = end.msgs
          /\ registered_agents' = RegistryAfterDispatch(registered_agents, end.msgs)
    /\ UNCHANGED not_coord_vars

CoordNext ==
    \/ \E a \in AgentIds, caps \in CapabilityLists : register_agent(a, caps)
    \/ \E a \in AgentIds, st \in AgentStatus : set_status(a, st)
    \/ \E w \in WorkflowIds, tasks \in WorkflowTaskLists : orchestrate_workflow(w, tasks)

(***************************************************************************)
(* The agents' entry points: process_message and execute_task              *)
(***************************************************************************)
\* dict.get(key, default) on a dict given as a record of its keys.
Get(d, key, default) == IF key \in DOMAIN d THEN d[key] ELSE default

\* A value that cannot be a dict key (a list, as JSON content may carry).
Unhashable == "<unhashable>"

\* Message(id, sender, receiver, message_type, content, correlation_id); the id
\* of a message created here is a fresh uuid.
Message(sender, receiver, message_type, content, correlation_id) ==
    [id |-> "<uuid>", sender |-> sender, receiver |-> receiver,
     message_type |-> message_type, content |-> content,
     correlation_id |-> correlation_id]

\* A message as it arrives: built by its sender, without correlation id.
Inbound(id, sender, content) ==
    [id |-> id, sender |-> sender, receiver |-> "", message_type |-> "REQUEST",
     content |-> content, correlation_id |-> None]

MessageIds == {"m1"}

\* The task lists a message or a task descriptor carries.
CarriedTaskLists ==
    {<<>>,
     <<[id |-> "t1", capability |-> "x"]>>,
     <<[id |-> "t1", capability |-> "x"], [id |-> "t2", capability |-> "y"]>>,
     <<[id |-> Missing, capability |-> "x"]>>}

\* The contents the coordinator is sent.
CoordinatorContents ==
    {[action |-> "register", capabilities |-> caps] : caps \in CapabilityLists}
    \cup {[action |-> "register"]}
    \cup {[action |-> "start_workflow", workflow_id |-> w, tasks |-> ts] :
            w \in {"w1", Unhashable}, ts \in CarriedTaskLists}
    \cup {[action |-> "start_workflow", workflow_id |-> "w1"]}
    \cup {[action |-> "ping"], [text |-> "hello"]}

CoordinatorMessages ==
    {Inbound(id, sender, content) :
        id \in MessageIds, sender \in AgentIds, content \in CoordinatorContents}

\* TaskResult(task_id, agent_id, success, result, error)
TaskResult(task_id, agent_id, success, result, error) ==
    [task_id |-> task_id, agent_id |-> agent_id, success |-> success,
     result |-> result, error |-> error]

\* What an entry point hands back: a message, a task result, None, or an
\* exception that leaves it.
Returned(kind, value) == [kind |-> kind, value |-> value]
ReturnedNone == [kind |-> "None"]
RaisedWith(text) == [kind |-> "raised", error |-> text]

TypeErrorUnhashable == "unhashable type: 'list'"

AgentInit ==
    /\ llm = None
    /\ last_call = [op |-> "none"]

\* What a call of orchestrate_workflow from an entry point does: with an id
\* that cannot be a key the assignment to active_workflows raises, before the
\* try; otherwise the workflow is stored and returned.
OrchestrateCall(workflow_id, tasks) ==
    IF workflow_id = Unhashable
    THEN [kind |-> "raised", error |-> TypeErrorUnhashable,
          workflows |-> active_workflows, msgs |-> <<>>]
    ELSE LET end == RunTasks(tasks, 1, <<>>, <<>>)
             workflow == EndedWorkflow(workflow_id, tasks, end)
         IN [kind |-> "returned", workflow |-> workflow,
             workflows |-> WorkflowsPut(workflow_id, workflow), msgs |-> end.msgs]

\* CoordinatorAgent.process_message: what it hands back for message.
CoordinatorReply(message) ==
    LET content == message.content
        action == Get(content, "action", None)
    IN IF action = "register"
       THEN Returned("message",
                Message("coordinator", message.sender, "RESPONSE",
                        [status |-> "registered"], None))
       ELSE IF action = "start_workflow"
       THEN LET out == OrchestrateCall(Get(content, "workflow_id", None),
                                       Get(content, "tasks", <<>>))
            IN IF out.kind = "raised" THEN RaisedWith(out.error)
               ELSE Returned("message",
                        Message("coordinator", message.sender, "RESPONSE",
                                [workflow |-> out.workflow], None))
       ELSE ReturnedNone

\* CoordinatorAgent.process_message(message), called directly.
coordinator_process_message(message) ==
    /\ LET content == message.content
           action == Get(content, "action", None)
       IN IF action = "register"
          THEN /\ registered_agents' =
                      RegistryPut(message.sender, Get(content, "capabilities", <<>>))
               /\ UNCHANGED active_workflows
               /\ dispatched' = <<>>
          ELSE IF action = "start_workflow"
          THEN LET out == OrchestrateCall(Get(content, "workflow_id", None),
                                          Get(content, "tasks", <<>>))
               IN /\ active_workflows' = out.workflows
                  /\ dispatched' = out.msgs
                  /\ UNCHANGED registered_agents
          ELSE /\ dispatched' = <<>>
               /\ UNCHANGED <<registered_agents, active_workflows>>
    /\ coord_ret' = NoRet
    /\ last_call' = [agent |-> "CoordinatorAgent", op |-> "process_message",
                     arg |-> message, ret |-> CoordinatorReply(message)]
    /\ UNCHANGED llm
    /\ UNCHANGED not_agent_vars

\* An optional value that is not a string: absent (Python's None) or present.
Nothing == [kind |-> "None"]
Some(v) == [kind |-> "value", value |-> v]

\* str(e) of ValueError(f"Unknown task type: {task.get('type')}")
UnknownTaskType(task_type) ==
    IF task_type = None THEN "Unknown task type: None"
    ELSE IF task_type = "report" THEN "Unknown task type: report"
    ELSE "Unknown task type: orchestrate"

\* The task descriptors the coordinator is asked to execute.
CoordinatorTasks ==
    {[type |-> "orchestrate", id |-> "t0", workflow_id |-> w, tasks |-> ts] :
        w \in {"w1", Unhashable}, ts \in CarriedTaskLists}
    \cup {[type |-> "orchestrate", workflow_id |-> "w1"],
          [type |-> "report", id |-> "t0"], [id |-> "t0"], [type |-> "report"]}

\* CoordinatorAgent.execute_task: the except clause.
CoordinatorTaskExcept(task_id, text) ==
    Returned("task_result", TaskResult(task_id, "coordinator", FALSE, Nothing, text))

\* Mutant of CoordinatorTaskResult: success follows the workflow's status.
CoordinatorTaskResult_by_status(task) ==
    LET task_id == Get(task, "id", "<uuid>")
    IN IF Get(task, "type", None) = "orchestrate"
       THEN LET out == OrchestrateCall(Get(task, "workflow_id", "<uuid>"),
                                       Get(task, "tasks", <<>>))
            IN IF out.kind = "raised" THEN CoordinatorTaskExcept(task_id, out.error)
               ELSE IF out.workflow.status = "failed"
               THEN CoordinatorTaskExcept(task_id, out.workflow.error)
               ELSE Returned("task_result",
                        TaskResult(task_id, "coordinator", TRUE, Some(out.workflow), None))
       ELSE CoordinatorTaskExcept(task_id, UnknownTaskType(Get(task, "type", None)))

\* CoordinatorAgent.execute_task: what it hands back for task.
CoordinatorTaskResult(task) ==
    LET task_id == Get(task, "id", "<uuid>")
    IN IF Get(task, "type", None) = "orchestrate"
       THEN LET out == OrchestrateCall(Get(task, "workflow_id", "<uuid>"),
                                       Get(task, "tasks", <<>>))
            IN IF out.kind = "raised" THEN CoordinatorTaskExcept(task_id, out.error)
               ELSE Returned("task_result",
                        TaskResult(task_id, "coordinator", TRUE, Some(out.workflow), None))
       ELSE CoordinatorTaskExcept(task_id, UnknownTaskType(Get(task, "type", None)))

\* CoordinatorAgent.execute_task(task), called directly.
coordinator_execute_task(task) ==
    /\ IF Get(task, "type", None) = "orchestrate"
       THEN LET out == OrchestrateCall(Get(task, "workflow_id", "<uuid>"),
                                       Get(task, "tasks", <<>>))
            IN /\ active_workflows' = out.workflows
               /\ dispatched' = out.msgs
       ELSE /\ dispatched' = <<>>
            /\ UNCHANGED active_workflows
    /\ coord_ret' = NoRet
    /\ last_call' = [agent |-> "CoordinatorAgent", op |-> "execute_task",
                     arg |-> task, ret |-> CoordinatorTaskResult(task)]
    /\ UNCHANGED <<registered_agents, llm>>
    /\ UNCHANGED not_agent_vars

(***************************************************************************)
(* TestAgent                                                               *)
(***************************************************************************)
\* How initialize ends: the model is built; the configured provider is not
\* google; get_llm_config or the model's constructor raises.
InitializeOutcomes == {"ok", "not_google", "raise"}

\* TestAgent.initialize(), on an agent without model: only "ok" sets self.llm
\* (and adds the two capabilities); it returns True then and False otherwise.
test_agent_initialize(outcome) ==
    /\ llm = None
    /\ llm' = IF outcome = "ok" THEN "gemini" ELSE None
    /\ last_call' = [agent |-> "TestAgent", op |-> "initialize", arg |-> [config |-> outcome],
                     ret |-> [kind |-> "bool", bool |-> outcome = "ok"]]
    /\ UNCHANGED coord_vars
    /\ UNCHANGED not_agent_vars

\* How self.llm.ainvoke(prompt) ends.
LlmOutcomes == {"ok", "raise"}

LlmNotInitialized == "LLM not initialized"

\* _handle_chat: without model it raises; with one, a failure of the model is
\* turned into an apology with confidence 0.0.
HandleChat(outcome) ==
    IF llm = None THEN RaisedWith(LlmNotInitialized)
    ELSE IF outcome = "ok"
    THEN Returned("dict", [response |-> "text", confidence |-> "0.9"])
    ELSE Returned("dict", [response |-> "I'm sorry, I encountered an error: llm failed",
                           confidence |-> "0.0"])

\* _handle_text_analysis: the same shape, with analysis and insights.
HandleTextAnalysis(outcome) ==
    IF llm = None THEN RaisedWith(LlmNotInitialized)
    ELSE IF outcome = "ok"
    THEN Returned("dict", [analysis |-> "text", insights |-> <<"insight">>])
    ELSE Returned("dict", [analysis |-> "Analysis failed: llm failed", insights |-> <<>>])

\* f"Unknown action: {action}"
UnknownAction(action) ==
    IF action = None THEN "Unknown action: None" ELSE "Unknown action: ping"

\* The contents the test agent is sent.
TestAgentContents ==
    {[action |-> "chat", message |-> "hi"], [action |-> "chat"],
     [action |-> "analyze_text", text |-> "budget", analysis_type |-> "budget"],
     [action |-> "ping"], [text |-> "hello"]}

TestAgentMessages ==
    {Inbound(id, sender, content) :
        id \in MessageIds, sender \in AgentIds, content \in TestAgentContents}

\* TestAgent.process_message: the except clause.
TestAgentExcept_miscorrelated(message, text) ==
    Returned("message",
        Message("test_agent", message.sender, "ERROR", [error |-> text], "<uuid>"))

TestAgentExcept(message, text) ==
    Returned("message",
        Message("test_agent", message.sender, "ERROR", [error |-> text], message.id))

\* TestAgent.process_message: what it hands back for message when the model
\* call, if one is made, ends as outcome.
TestAgentReply(message, outcome) ==
    LET action == Get(message.content, "action", None)
    IN IF action = "chat"
       THEN LET response == HandleChat(outcome)
            IN IF response.kind = "raised" THEN TestAgentExcept(message, response.error)
               ELSE Returned("message",
                        Message("test_agent", message.sender, "RESPONSE",
                                [action |-> "chat_response",
                                 response |-> response.value.response,
                                 confidence |-> response.value.confidence],
                                message.id))
       ELSE IF action = "analyze_text"
       THEN LET analysis == HandleTextAnalysis(outcome)
            IN IF analysis.kind = "raised" THEN TestAgentExcept(message, analysis.error)
               ELSE Returned("message",
                        Message("test_agent", message.sender, "RESPONSE",
                                [action |-> "analysis_response",
                                 analysis |-> analysis.value.analysis,
                                 insights |-> analysis.value.insights],
                                message.id))
       ELSE Returned("message",
                Message("test_agent", message.sender, "ERROR",
                        [error |-> UnknownAction(action),
                         supported_actions |-> <<"chat", "analyze_text">>],
                        message.id))

\* TestAgent.process_message(message), called directly.
test_agent_process_message(message, outcome) ==
    /\ last_call' = [agent |-> "TestAgent", op |-> "process_message",
                     arg |-> message, ret |-> TestAgentReply(message, outcome)]
    /\ UNCHANGED llm
    /\ UNCHANGED coord_vars
    /\ UNCHANGED not_agent_vars

\* The task descriptors the test agent is asked to execute.
TestAgentTasks ==
    {[type |-> "chat", id |-> "t0", message |-> "hi"], [type |-> "chat"],
     [type |-> "analyze_text", id |-> "t0", text |-> "budget"],
     [type |-> "report", id |-> "t0"], [id |-> "t0"]}

\* TestAgent.execute_task: the except clause.
TestAgentTaskExcept_keeps_result(task_id, text) ==
    Returned("task_result",
        TaskResult(task_id, "test_agent", FALSE, Some([response |-> text]), text))

TestAgentTaskExcept(task_id, text) ==
    Returned("task_result", TaskResult(task_id, "test_agent", FALSE, Nothing, text))

\* TestAgent.execute_task: what it hands back for task.
TestAgentTaskResult(task, outcome) ==
    LET task_id == Get(task, "id", "unknown")
        task_type == Get(task, "type", None)
        result == IF task_type = "chat" THEN HandleChat(outcome)
                  ELSE IF task_type = "analyze_text" THEN HandleTextAnalysis(outcome)
                  ELSE RaisedWith(UnknownTaskType(task_type))
    IN IF result.kind = "raised" THEN TestAgentTaskExcept(task_id, result.error)
       ELSE Returned("task_result",
                TaskResult(task_id, "test_agent", TRUE, Some(result.value), None))

\* TestAgent.execute_task(task), called directly.
test_agent_execute_task(task, outcome) ==
    /\ last_call' = [agent |-> "TestAgent", op |-> "execute_task",
                     arg |-> task, ret |-> TestAgentTaskResult(task, outcome)]
    /\ UNCHANGED llm
    /\ UNCHANGED coord_vars
    /\ UNCHANGED not_agent_vars

(***************************************************************************)
(* BaseAgent.send_message                                                  *)
(***************************************************************************)
MessageType == {"REQUEST", "RESPONSE", "NOTIFICATION", "ERROR", "HEARTBEAT"}

\* The message send_message creates: no correlation id is given to it.
SentMessage(sender, receiver, content, message_type) ==
    Message(sender, receiver, message_type, content, None)

\* send_message(receiver, content, message_type) of an agent, called directly:
\* the message is created and logged, its id is returned; nothing delivers it.
send_message(sender, receiver, content, message_type) ==
    /\ last_call' = [agent |-> "BaseAgent", op |-> "send_message",
                     arg |-> [receiver |-> receiver, content |-> content,
                              message_type |-> message_type],
                     created |-> SentMessage(sender, receiver, content, message_type),
                     ret |-> [kind |-> "id", id |-> "<uuid>"]]
    /\ UNCHANGED llm
    /\ UNCHANGED coord_vars
    /\ UNCHANGED not_agent_vars

AgentsNext ==
    \/ \E message \in CoordinatorMessages : coordinator_process_message(message)
    \/ \E task \in CoordinatorTasks : coordinator_execute_task(task)
    \/ \E outcome \in InitializeOutcomes : test_agent_initialize(outcome)
    \/ \E message \in TestAgentMessages, outcome \in LlmOutcomes :
          test_agent_process_message(message, outcome)
    \/ \E task \in TestAgentTasks, outcome \in LlmOutcomes :
          test_agent_execute_task(task, outcome)
    \/ \E sender \in {"coordinator", "test_agent"}, receiver \in AgentIds,
          message_type \in MessageType :
          send_message(sender, receiver, [status |-> "registered"], message_type)

(***************************************************************************)
(* BaseAgent.run: the standalone loop of one agent                         *)
(***************************************************************************)
\* The agent whose loop is modelled.
RunAgentId == "agent"

\* A queued message: its id (the position at which it was put) and sender.
QueuedMessage(id, sender) == [id |-> id, sender |-> sender]
NoMessage == QueuedMessage(0, "")

\* What process_message returned: a reply or None. A reply is a Message the
\* hook built: it has its own id, receiver, type, content and correlation id
\* (an ERROR reply names the request it answers, a RESPONSE may not).
Reply(receiver, content, message_type, correlation_id) ==
    [present |-> TRUE, id |-> "<reply id>", receiver |-> receiver, content |-> content,
     message_type |-> message_type, correlation_id |-> correlation_id]
NoReply ==
    [present |-> FALSE, id |-> "", receiver |-> "", content |-> "",
     message_type |-> "", correlation_id |-> ""]
ReplyTypes == {"RESPONSE", "ERROR"}
ReplyCorrelations == {None, "<request id>"}
ProcessReturns ==
    {NoReply} \cup {Reply(r, "c1", t, c) :
                      r \in AgentIds, t \in ReplyTypes, c \in ReplyCorrelations}

\* An iteration that has just received message (NoMessage after a timeout).
Iteration(message) ==
    [message |-> message, processed |-> IF message = NoMessage THEN 0 ELSE 1,
     response |-> NoReply, periodic |-> 0, sent |-> <<>>,
     end |-> "running", raised |-> ""]

RunInit ==
    /\ message_queue = <<>>
    /\ self_status = "IDLE"
    /\ run_pc = "start"
    /\ run_end = ""
    /\ posted = 0
    /\ handled = <<>>
    /\ iter = [Iteration(NoMessage) EXCEPT !.end = "none"]

\* Another party puts a message into the mailbox.
put(sender) ==
    /\ posted < MaxMessages
    /\ posted' = posted + 1
    /\ message_queue' = Append(message_queue, QueuedMessage(posted + 1, sender))
    /\ UNCHANGED <<self_status, run_pc, run_end, handled, iter>>
    /\ UNCHANGED not_run_vars

\* await self.initialize(): before the loop and outside its try. The value it
\* returns is not looked at; an exception it raises leaves run().
run_initialize(outcome) ==
    /\ run_pc = "start"
    /\ IF outcome = "raise"
       THEN run_pc' = "ended" /\ run_end' = "raised"
       ELSE run_pc' = "receive" /\ UNCHANGED run_end
    /\ UNCHANGED <<message_queue, self_status, posted, handled, iter>>
    /\ UNCHANGED not_run_vars

LoopExceptPc_exit == "ended"

\* Where the except clause of the loop leads: asyncio.sleep(1), then the loop.
LoopExceptPc == "sleep"

\* except Exception as e: log, self.status = AgentStatus.ERROR, sleep.
LoopExcept(it, hook) ==
    /\ self_status' = "ERROR"
    /\ run_pc' = LoopExceptPc
    /\ iter' = [it EXCEPT !.end = "exception", !.raised = hook]

\* receive_message() returns the head of the queue; the message is truthy, so
\* status becomes BUSY and process_message is called with it.
run_receive ==
    /\ run_pc = "receive"
    /\ message_queue # <<>>
    /\ message_queue' = Tail(message_queue)
    /\ self_status' = "BUSY"
    /\ handled' = Append(handled, Head(message_queue).id)
    /\ iter' = Iteration(Head(message_queue))
    /\ run_pc' = "process"
    /\ UNCHANGED <<run_end, posted>>
    /\ UNCHANGED not_run_vars

\* receive_message() times out on an empty queue and returns None:
\* periodic_tasks is called.
run_timeout ==
    /\ run_pc = "receive"
    /\ message_queue = <<>>
    /\ iter' = [Iteration(NoMessage) EXCEPT !.periodic = 1]
    /\ run_pc' = "periodic"
    /\ UNCHANGED <<message_queue, self_status, run_end, posted, handled>>
    /\ UNCHANGED not_run_vars

\* receive_message() raises, having taken a message from the queue (consumed)
\* or not.
run_receive_raise(consumed) ==
    /\ run_pc = "receive"
    /\ consumed => message_queue # <<>>
    /\ message_queue' = IF consumed THEN Tail(message_queue) ELSE message_queue
    /\ LoopExcept(Iteration(NoMessage), "receive_message")
    /\ UNCHANGED <<run_end, posted, handled>>
    /\ UNCHANGED not_run_vars

\* process_message returns response: a reply is sent next, otherwise the
\* iteration ends with status IDLE.
run_process(response) ==
    /\ run_pc = "process"
    /\ IF response.present
       THEN /\ run_pc' = "send"
            /\ iter' = [iter EXCEPT !.response = response]
            /\ UNCHANGED self_status
       ELSE /\ run_pc' = "receive"
            /\ iter' = [iter EXCEPT !.end = "normal"]
            /\ self_status' = "IDLE"
    /\ UNCHANGED <<message_queue, run_end, posted, handled>>
    /\ UNCHANGED not_run_vars

run_process_raise ==
    /\ run_pc = "process"
    /\ LoopExcept(iter, "process_message")
    /\ UNCHANGED <<message_queue, run_end, posted, handled>>
    /\ UNCHANGED not_run_vars

ReplyReceiver_of_response(message, response) == response.receiver

\* Whom run() sends the reply to: message.sender.
ReplyReceiver(message, response) == message.sender

\* Mutant of ForwardedMessage: the reply is passed on as process_message built it.
ForwardedMessage_as_built(message, response) ==
    [id |-> response.id, sender |-> RunAgentId, receiver |-> ReplyReceiver(message, response),
     message_type |-> response.message_type, content |-> response.content,
     correlation_id |-> response.correlation_id]

\* The message send_message creates for the call of run(): receiver
\* message.sender, content response.content, type MessageType.RESPONSE.
ForwardedMessage(message, response) ==
    SentMessage(RunAgentId, ReplyReceiver(message, response), response.content, "RESPONSE")

\* await self.send_message(message.sender, response.content,
\* MessageType.RESPONSE) returns; then self.status = AgentStatus.IDLE.
run_send ==
    /\ run_pc = "send"
    /\ iter' = [iter EXCEPT
                  !.sent = Append(@, ForwardedMessage(iter.message, iter.response)),
                  !.end = "normal"]
    /\ self_status' = "IDLE"
    /\ run_pc' = "receive"
    /\ UNCHANGED <<message_queue, run_end, posted, handled>>
    /\ UNCHANGED not_run_vars

run_send_raise ==
    /\ run_pc = "send"
    /\ LoopExcept(iter, "send_message")
    /\ UNCHANGED <<message_queue, run_end, posted, handled>>
    /\ UNCHANGED not_run_vars

\* Mutant of IdleIterationStatus: an iteration without message ends IDLE.
IdleIterationStatus_reset(status) == "IDLE"

\* The else branch of "if message" calls periodic_tasks and writes no status.
IdleIterationStatus(status) == status

\* await self.periodic_tasks() returns: the iteration is over.
run_periodic ==
    /\ run_pc = "periodic"
    /\ iter' = [iter EXCEPT !.end = "normal"]
    /\ run_pc' = "receive"
    /\ self_status' = IdleIterationStatus(self_status)
    /\ UNCHANGED <<message_queue, run_end, posted, handled>>
    /\ UNCHANGED not_run_vars

run_periodic_raise ==
    /\ run_pc = "periodic"
    /\ LoopExcept(iter, "periodic_tasks")
    /\ UNCHANGED <<message_queue, run_end, posted, handled>>
    /\ UNCHANGED not_run_vars

\* asyncio.sleep(1) of the except clause is over: back to the top of the loop.
run_sleep ==
    /\ run_pc = "sleep"
    /\ run_pc' = "receive"
    /\ UNCHANGED <<message_queue, self_status, run_end, posted, handled, iter>>
    /\ UNCHANGED not_run_vars

\* The task running run() is cancelled while it waits in one of its awaits:
\* CancelledError is no Exception, so the except clause lets it through.
run_cancel ==
    /\ run_pc \in {"start", "receive", "process", "send", "periodic", "sleep"}
    /\ run_pc' = "ended"
    /\ run_end' = "cancelled"
    /\ UNCHANGED <<message_queue, self_status, posted, handled, iter>>
    /\ UNCHANGED not_run_vars

RunNext ==
    \/ \E sender \in AgentIds : put(sender)
    \/ \E outcome \in {"True", "False", "raise"} : run_initialize(outcome)
    \/ run_receive
    \/ run_timeout
    \/ \E consumed \in BOOLEAN : run_receive_raise(consumed)
    \/ \E response \in ProcessReturns : run_process(response)
    \/ run_process_raise
    \/ run_send
    \/ run_send_raise
    \/ run_periodic
    \/ run_periodic_raise
    \/ run_sleep
    \/ run_cancel

(***************************************************************************)
(* Message.to_dict and the way back                                        *)
(***************************************************************************)
\* MessageType.<member>.value
MessageTypeValue(member) ==
    CASE member = "REQUEST" -> "request"
      [] member = "RESPONSE" -> "response"
      [] member = "NOTIFICATION" -> "notification"
      [] member = "ERROR" -> "error"
      [] OTHER -> "heartbeat"

\* A datetime, and datetime.isoformat().
Timestamps == {[datetime |-> "2024-01-01 10:00:00"]}
isoformat(timestamp) == "2024-01-01T10:00:00"

\* The messages serialised: every field takes at least two values, the
\* correlation id is absent or present.
FullMessage(id, sender, receiver, message_type, content, timestamp, correlation_id) ==
    [id |-> id, sender |-> sender, receiver |-> receiver, message_type |-> message_type,
     content |-> content, timestamp |-> timestamp, correlation_id |-> correlation_id]

Messages ==
    {FullMessage(id, sender, receiver, message_type, content, timestamp, correlation_id) :
        id \in {"m1", "m2"}, sender \in AgentIds, receiver \in AgentIds,
        message_type \in MessageType,
        content \in {[action |-> "ping"], [action |-> "register", capabilities |-> <<>>]},
        timestamp \in Timestamps, correlation_id \in {None, "m0"}}

NotYet == [state |-> "none"]

MsgInit ==
    /\ original = NotYet
    /\ as_dict = NotYet
    /\ parsed = NotYet

\* A Message is created.
new_message(message) ==
    /\ original = NotYet
    /\ original' = message
    /\ UNCHANGED <<as_dict, parsed>>
    /\ UNCHANGED not_msg_vars

\* Message.to_dict(): the type goes out as its value, the timestamp as text.
to_dict(self) ==
    [id |-> self.id, sender |-> self.sender, receiver |-> self.receiver,
     message_type |-> MessageTypeValue(self.message_type), content |-> self.content,
     timestamp |-> isoformat(self.timestamp), correlation_id |-> self.correlation_id]

serialise ==
    /\ original # NotYet
    /\ as_dict = NotYet
    /\ as_dict' = to_dict(original)
    /\ UNCHANGED <<original, parsed>>
    /\ UNCHANGED not_msg_vars

\* Message(**d): the dataclass constructor, the one way the code has of making
\* a Message out of field values; it stores each value as it is given.
MessageFromFields(d) ==
    [id |-> d.id, sender |-> d.sender, receiver |-> d.receiver,
     message_type |-> d.message_type, content |-> d.content,
     timestamp |-> d.timestamp, correlation_id |-> d.correlation_id]

parse_back ==
    /\ as_dict # NotYet
    /\ parsed = NotYet
    /\ parsed' = MessageFromFields(as_dict)
    /\ UNCHANGED <<original, as_dict>>
    /\ UNCHANGED not_msg_vars

MsgNext ==
    \/ \E message \in Messages : new_message(message)
    \/ serialise
    \/ parse_back

(***************************************************************************)
(* CoordinatorAgent: register_agent and orchestrate_workflow as coroutines *)
(* of one event loop. A coroutine can be suspended only at an await; the   *)
(* model lets another coroutine run at every await of orchestrate_workflow *)
(* (the calls of find_capable_agent), which is at least what the event     *)
(* loop allows. register_agent and find_capable_agent hold no await.       *)
(***************************************************************************)
Coroutines == {1, 2}

\* The task lists of the concurrent workflows.
ConcurrentTaskLists ==
    {<<[id |-> "t1", capability |-> "x"]>>,
     <<[id |-> "t1", capability |-> "x"], [id |-> "t2", capability |-> "y"]>>}

IdleFlow == [pc |-> "idle", tasks |-> <<>>, k |-> 0, status |-> "none", served |-> <<>>]

ConcInit ==
    /\ registry = <<>>
    /\ register_calls = 0
    /\ flows = [w \in Coroutines |-> IdleFlow]
    /\ views = [w \in Coroutines |-> <<>>]

\* The dict literal of register_agent, evaluated by call number call: the
\* heartbeat is the time of the call, and `by` remembers for every field the
\* call that wrote it.
RegistryEntry(agent_id, capabilities, call) ==
    [agent_id |-> agent_id, capabilities |-> capabilities, status |-> "IDLE",
     last_heartbeat |-> call,
     by |-> [capabilities |-> call, status |-> call, last_heartbeat |-> call]]

RegistryIndex(agents, agent_id) ==
    IF \E k \in DOMAIN agents : agents[k].agent_id = agent_id
    THEN CHOOSE k \in DOMAIN agents : agents[k].agent_id = agent_id
    ELSE 0

RegistryStore_in_place(agents, entry) ==
    LET k == RegistryIndex(agents, entry.agent_id)
    IN IF k = 0 THEN Append(agents, entry)
       ELSE [agents EXCEPT ![k].capabilities = entry.capabilities,
                           ![k].by.capabilities = entry.by.capabilities]

\* self.registered_agents[agent_id] = {...}: one store of the whole entry.
RegistryStore(agents, entry) ==
    LET k == RegistryIndex(agents, entry.agent_id)
    IN IF k = 0 THEN Append(agents, entry) ELSE [agents EXCEPT ![k] = entry]

\* A register_agent coroutine runs: it has no await, so it runs as a whole.
conc_register_agent(agent_id, capabilities) ==
    /\ register_calls < MaxRegistrations
    /\ register_calls' = register_calls + 1
    /\ registry' = RegistryStore(registry,
                       RegistryEntry(agent_id, capabilities, register_calls + 1))
    /\ UNCHANGED <<flows, views>>
    /\ UNCHANGED not_conc_vars

\* An orchestrate_workflow coroutine starts: up to its first await.
conc_orchestrate_begin(w, tasks) ==
    /\ flows[w].pc = "idle"
    /\ flows' = [flows EXCEPT ![w] =
                    [pc |-> IF tasks = <<>> THEN "done" ELSE "lookup", tasks |-> tasks,
                     k |-> 1, status |-> IF tasks = <<>> THEN "completed" ELSE "running",
                     served |-> <<>>]]
    /\ UNCHANGED <<registry, register_calls, views>>
    /\ UNCHANGED not_conc_vars

\* find_capable_agent over the registry as it stands.
RECURSIVE ScanRegistry(_, _, _)
ScanRegistry(agents, k, required_capability) ==
    IF k > Len(agents) THEN None
    ELSE IF HasCapability(agents[k], required_capability) /\ agents[k].status = "IDLE"
         THEN agents[k].agent_id
         ELSE ScanRegistry(agents, k + 1, required_capability)

\* The coroutine resumes in its await of find_capable_agent: the lookup runs
\* over the registry of that moment, and the loop goes on to its next await,
\* or the workflow ends.
conc_find_capable_agent(w) ==
    /\ flows[w].pc = "lookup"
    /\ views' = [views EXCEPT ![w] = registry]
    /\ LET f == flows[w]
           agent_id == ScanRegistry(registry, 1, f.tasks[f.k].capability)
       IN flows' = [flows EXCEPT ![w] =
             IF ~Truthy(agent_id)
             THEN [f EXCEPT !.pc = "done", !.status = "failed"]
             ELSE IF f.k = Len(f.tasks)
             THEN [f EXCEPT !.pc = "done", !.status = "completed",
                            !.served = Append(@, agent_id)]
             ELSE [f EXCEPT !.k = @ + 1, !.served = Append(@, agent_id)]]
    /\ UNCHANGED <<registry, register_calls>>
    /\ UNCHANGED not_conc_vars

ConcNext ==
    \/ \E agent_id \in AgentIds, capabilities \in CapabilityLists :
          conc_register_agent(agent_id, capabilities)
    \/ \E w \in Coroutines, tasks \in ConcurrentTaskLists : conc_orchestrate_begin(w, tasks)
    \/ \E w \in Coroutines : conc_find_capable_agent(w)

(***************************************************************************)
(* AgentRegistry.start_all: one task per registered agent, each running    *)
(* the agent's run(), gathered with return_exceptions=True. Of run() what  *)
(* matters here is how it can end: initialize raises, before the loop; the *)
(* loop itself absorbs every exception of its body; the task is cancelled. *)
(***************************************************************************)
RegistryAgentIds == {"a1", "a2", "a3"}

\* A task as asyncio.create_task returns it: scheduled, not yet running.
CreatedTask(agent_id) ==
    [agent_id |-> agent_id, state |-> "created", iterations |-> 0, status |-> "IDLE"]

\* The states in which a task is done.
DoneStates == {"raised", "cancelled"}

StartInit ==
    /\ registry_agents = <<>>
    /\ started_tasks = <<>>
    /\ start_all_pc = "idle"

\* register(agent): self.agents[agent.agent_id] = agent.
registry_register(agent_id) ==
    /\ start_all_pc = "idle"
    /\ Len(registry_agents) < MaxAgents
    /\ \A k \in DOMAIN registry_agents : registry_agents[k] # agent_id
    /\ registry_agents' = Append(registry_agents, agent_id)
    /\ UNCHANGED <<started_tasks, start_all_pc>>
    /\ UNCHANGED not_start_vars

\* start_all up to its await: a task is created for every agent, in the order
\* of self.agents.values(); none has run yet.
start_all_begin ==
    /\ start_all_pc = "idle"
    /\ started_tasks' = [k \in DOMAIN registry_agents |-> CreatedTask(registry_agents[k])]
    /\ start_all_pc' = "gather"
    /\ UNCHANGED registry_agents
    /\ UNCHANGED not_start_vars

\* The task of agent k runs run() up to the loop: await self.initialize() is
\* outside the try, so an exception of initialize ends run() and the task.
task_initialize(k, outcome) ==
    /\ k \in DOMAIN started_tasks
    /\ started_tasks[k].state = "created"
    /\ started_tasks' = [started_tasks EXCEPT
                            ![k].state = IF outcome = "raise" THEN "raised" ELSE "loop"]
    /\ UNCHANGED <<registry_agents, start_all_pc>>
    /\ UNCHANGED not_start_vars

\* One iteration of the loop of agent k: it ends normally, or its body raises
\* and the except clause sets status ERROR and sleeps; the loop goes on.
task_iterate(k, outcome) ==
    /\ k \in DOMAIN started_tasks
    /\ started_tasks[k].state = "loop"
    /\ started_tasks[k].iterations < MaxIterations
    /\ started_tasks' = [started_tasks EXCEPT
                            ![k].iterations = @ + 1,
                            ![k].status = IF outcome = "raise" THEN "ERROR" ELSE "IDLE"]
    /\ UNCHANGED <<registry_agents, start_all_pc>>
    /\ UNCHANGED not_start_vars

\* Somebody cancels the task of agent k while run() waits in an await.
task_cancel(k) ==
    /\ k \in DOMAIN started_tasks
    /\ started_tasks[k].state \in {"created", "loop"}
    /\ started_tasks' = [started_tasks EXCEPT ![k].state = "cancelled"]
    /\ UNCHANGED <<registry_agents, start_all_pc>>
    /\ UNCHANGED not_start_vars

\* Mutant of Gather: without return_exceptions the first exception of a task
\* is raised to the awaiter at once, the other tasks running on.
Gather_propagating(tasks) ==
    IF \E k \in DOMAIN tasks : tasks[k].state = "raised"
    THEN [ready |-> TRUE, outcome |-> "raised"]
    ELSE [ready |-> \A k \in DOMAIN tasks : tasks[k].state \in DoneStates,
          outcome |-> "returned"]

\* await asyncio.gather(*tasks, return_exceptions=True): over when every task
\* is done; exceptions and cancellations of the tasks are items of the list it
\* returns.
Gather(tasks) ==
    [ready |-> \A k \in DOMAIN tasks : tasks[k].state \in DoneStates,
     outcome |-> "returned"]

\* The await of start_all is over.
start_all_end ==
    /\ start_all_pc = "gather"
    /\ Gather(started_tasks).ready
    /\ start_all_pc' = Gather(started_tasks).outcome
    /\ UNCHANGED <<registry_agents, started_tasks>>
    /\ UNCHANGED not_start_vars

\* start_all itself is cancelled while it waits: gather cancels the tasks that
\* are not done, and CancelledError leaves start_all.
start_all_cancel ==
    /\ start_all_pc = "gather"
    /\ started_tasks' = [k \in DOMAIN started_tasks |->
                            IF started_tasks[k].state \in DoneStates THEN started_tasks[k]
                            ELSE [started_tasks[k] EXCEPT !.state = "cancelled"]]
    /\ start_all_pc' = "cancelled"
    /\ UNCHANGED registry_agents
    /\ UNCHANGED not_start_vars

StartNext ==
    \/ \E agent_id \in RegistryAgentIds : registry_register(agent_id)
    \/ start_all_begin
    \/ \E k \in 1..MaxAgents, outcome \in {"True", "False", "raise"} :
          task_initialize(k, outcome)
    \/ \E k \in 1..MaxAgents, outcome \in {"normal", "raise"} : task_iterate(k, outcome)
    \/ \E k \in 1..MaxAgents : task_cancel(k)
    \/ start_all_end
    \/ start_all_cancel

Init ==
    /\ EtlInit /\ RagInit /\ CoordInit /\ AgentInit /\ RunInit /\ MsgInit /\ ConcInit
    /\ StartInit

SpecETL == Init /\ [][EtlNext]_vars

SpecRAG == Init /\ [][RagNext]_vars

SpecCoord == Init /\ [][CoordNext]_vars

SpecAgents == Init /\ [][AgentsNext]_vars

SpecRun == Init /\ [][RunNext]_vars

SpecMessage == Init /\ [][MsgNext]_vars

SpecConc == Init /\ [][ConcNext]_vars

SpecStartAll == Init /\ [][StartNext]_vars


(***************************************************************************)
(* ETLPipeline: what the call history says                                 *)
(***************************************************************************)
StageCalls(stage) == SelectSeq(calls, LAMBDA c : c.stage = stage)

\* The calls of one stage that ended in the given way.
StageCallsOf(stage, kinds) ==
    SelectSeq(calls, LAMBDA c : c.stage = stage /\ c.kind \in kinds)

Vals(cs) == [k \in 1..Len(cs) |-> cs[k].val]

\* How many entries of sequence s satisfy P.
Count(s, P(_)) == Len(SelectSeq(s, P))

\* The document at position d of the working set has been through validation.
Decided(d) == epc \in {"load", "done"} \/ (epc = "validate" /\ d < di)

\* Every registered validator was called on document d and returned true.
AllTrue(d) ==
    \A v \in 1..Len(validators) :
        \E k \in 1..Len(calls) :
            /\ calls[k].stage = "validate"
            /\ calls[k].doc = d
            /\ calls[k].idx = v
            /\ calls[k].kind = "true"

\* The error strings one validator call contributes.
RECURSIVE ValidationErrorsOf(_)
ValidationErrorsOf(cs) ==
    IF cs = <<>> THEN <<>>
    ELSE LET c == Head(cs)
             own == CASE c.kind = "true" -> <<>>
                      [] c.kind = "false" ->
                           [k \in 1..Len(c.val) |->
                               ErrorMsg("reported", validators[c.idx], c.val[k])]
                      [] OTHER ->
                           <<ErrorMsg("validate", validators[c.idx], "Validation failed")>>
         IN own \o ValidationErrorsOf(Tail(cs))

(***************************************************************************)
(* C1. ETLPipeline.run, collection stage: 'collected' is the sum of the    *)
(* lengths of the lists returned by the collectors that did not raise;     *)
(* every collector is invoked exactly once, a raising collector not        *)
(* stopping the later ones; and the stage adds exactly one error string    *)
(* per raising collector.                                                  *)
(***************************************************************************)
C1_CollectionIsolatesFailures ==
    LET cc == StageCalls("collect")
        ok == StageCallsOf("collect", {"ok"})
    IN /\ results.collected = SumLen(Vals(ok))
       /\ etl_ret.kind = "returned" => etl_ret.value.collected = SumLen(Vals(ok))
       /\ \A i \in 1..Len(collectors) :
            /\ Count(cc, LAMBDA c : c.idx = i) <= 1
            /\ epc \in {"validate", "load", "done"} => Count(cc, LAMBDA c : c.idx = i) = 1
            /\ Count(results.errors,
                     LAMBDA e : e.kind = "collect" /\ e.who = collectors[i])
                 = Count(cc, LAMBDA c : c.idx = i /\ c.kind = "raise")
       /\ Count(results.errors, LAMBDA e : e.kind = "collect")
            = Len(StageCallsOf("collect", {"raise"}))
       /\ \A k \in 1..Len(cc) : cc[k].idx \in 1..Len(collectors)

\* Reached: the first collector raised, the second was still called and returned
\* two documents, and run returned.
C1_Witness ==
    /\ etl_ret.kind = "returned"
    /\ Len(collectors) = 2
    /\ Len(calls) >= 2
    /\ calls[1].stage = "collect" /\ calls[1].kind = "raise"
    /\ calls[2].stage = "collect" /\ calls[2].kind = "ok" /\ Len(calls[2].val) = 2
    /\ etl_ret.value.collected = 2

(***************************************************************************)
(* C2. ETLPipeline.run, validation stage: a document is in the validated   *)
(* set, and counted in 'validated', iff every registered validator         *)
(* returned true for it; at the first validator that returns false or      *)
(* raises, that validator's errors (or the exception message) are appended *)
(* to 'errors' and no later validator is invoked for that document.        *)
(***************************************************************************)
C2_ValidatedIffAllAccept ==
    LET n == Len(all_documents)
        accepted == SelectSeq([d \in 1..n |-> d], LAMBDA d : Decided(d) /\ AllTrue(d))
        vc == StageCalls("validate")
    IN /\ epc # "collect" =>
            /\ validated_documents = [k \in 1..Len(accepted) |-> all_documents[accepted[k]]]
            /\ results.validated = Len(accepted)
       \* every validator call is the first of its document's chain or follows a
       \* true of the validator before it; nothing follows a false or a raise
       /\ \A k \in 1..Len(vc) :
            /\ vc[k].idx \in 1..Len(validators)
            /\ vc[k].doc \in 1..n
            /\ \A j \in 1..Len(vc) : (j # k /\ vc[j].doc = vc[k].doc) => vc[j].idx # vc[k].idx
            /\ vc[k].idx > 1 =>
                 \E j \in 1..(k - 1) :
                    vc[j].doc = vc[k].doc /\ vc[j].idx = vc[k].idx - 1 /\ vc[j].kind = "true"
            /\ vc[k].kind # "true" =>
                 \A j \in (k + 1)..Len(vc) : vc[j].doc # vc[k].doc
       \* what the stage appended to 'errors' is what the rejecting calls reported
       /\ SelectSeq(results.errors, LAMBDA e : e.kind \in {"reported", "validate"})
            = ValidationErrorsOf(vc)

\* Reached: with two validators, the first document was rejected by the first
\* validator (two strings reported), the second passed both, and run returned.
C2_Witness ==
    /\ etl_ret.kind = "returned"
    /\ Len(validators) = 2
    /\ Len(all_documents) = 2
    /\ validated_documents = <<all_documents[2]>>
    /\ \E k \in 1..Len(calls) :
         /\ calls[k].stage = "validate" /\ calls[k].doc = 1 /\ calls[k].idx = 1
         /\ calls[k].kind = "false" /\ Len(calls[k].val) = 2
    /\ AllTrue(2)

(***************************************************************************)
(* C3. ETLPipeline.run, loading stage: every loader is invoked exactly     *)
(* once whether or not earlier loaders raised or returned false, and each  *)
(* failing loader adds exactly one string to 'errors'.                     *)
(***************************************************************************)
C3_LoadersIsolated ==
    LET lc == StageCalls("load")
    IN /\ \A i \in 1..Len(loaders) :
            /\ Count(lc, LAMBDA c : c.idx = i) <= 1
            /\ epc = "done" => Count(lc, LAMBDA c : c.idx = i) = 1
            /\ Count(results.errors, LAMBDA e : e.kind = "load" /\ e.who = loaders[i])
                 = Count(lc, LAMBDA c : c.idx = i /\ c.kind \in {"false", "raise"})
       /\ Count(results.errors, LAMBDA e : e.kind = "load")
            = Len(StageCallsOf("load", {"false", "raise"}))
       /\ \A k \in 1..Len(lc) : lc[k].idx \in 1..Len(loaders)

\* Reached: the first loader raised, the second was still called and returned
\* false, and run returned with one string for each.
C3_Witness ==
    /\ etl_ret.kind = "returned"
    /\ Len(loaders) = 2
    /\ \E j, k \in 1..Len(calls) :
         /\ j < k
         /\ calls[j].stage = "load" /\ calls[j].idx = 1 /\ calls[j].kind = "raise"
         /\ calls[k].stage = "load" /\ calls[k].idx = 2 /\ calls[k].kind = "false"
    /\ Count(etl_ret.value.errors, LAMBDA e : e.kind = "load") = 2

(***************************************************************************)
(* C4. ETLPipeline.run never raises to its caller: whatever collectors,    *)
(* validators and loaders do, it returns the summary; when a failure       *)
(* escapes the per-stage guards the summary carries the counts gathered so *)
(* far plus one top-level 'ETL pipeline failed' string.                    *)
(***************************************************************************)
Escaped == StageCallsOf("log", {"raise"}) # <<>>

C4_RunAlwaysReturns ==
    epc = "done" =>
        /\ etl_ret.kind = "returned"
        /\ etl_ret.value.collected = SumLen(Vals(StageCallsOf("collect", {"ok"})))
        /\ etl_ret.value.validated = Len(validated_documents)
        /\ etl_ret.value.loaded = SumLen(Vals(StageCallsOf("load", {"true"})))
        /\ etl_ret.value.parsed = 0
        /\ Count(etl_ret.value.errors, LAMBDA e : e.kind = "pipeline")
             = IF Escaped THEN 1 ELSE 0
        /\ Escaped =>
             etl_ret.value.errors[Len(etl_ret.value.errors)]
                 = ErrorMsg("pipeline", 0, "ETL pipeline failed")

\* Reached: a collector raised, a validator raised, a loader raised, a second
\* loader loaded one document, the closing statement failed, and run still
\* returned the summary with the counts and the top-level string.
C4_Witness ==
    /\ epc = "done"
    /\ Escaped
    /\ etl_ret.kind = "returned"
    /\ etl_ret.value.collected = 2
    /\ etl_ret.value.validated = 1
    /\ etl_ret.value.loaded = 1
    /\ StageCallsOf("collect", {"raise"}) # <<>>
    /\ StageCallsOf("validate", {"raise"}) # <<>>
    /\ StageCallsOf("load", {"raise"}) # <<>>

(***************************************************************************)
(* RAGPipeline: reading the history of retriever and generator calls       *)
(***************************************************************************)
HasCall(i, stage) == \E k \in DOMAIN rcalls : rcalls[k].q = i /\ rcalls[k].stage = stage

TheCall(i, stage) ==
    rcalls[CHOOSE k \in DOMAIN rcalls : rcalls[k].q = i /\ rcalls[k].stage = stage]

Raised(i) == \E k \in DOMAIN rcalls : rcalls[k].q = i /\ rcalls[k].kind = "raise"

RaisedStage(i) ==
    rcalls[CHOOSE k \in DOMAIN rcalls : rcalls[k].q = i /\ rcalls[k].kind = "raise"].stage

\* The context query number i ended with: what rerank returned for it if rerank
\* was called for it, else what retrieve returned for it.
FinalContext(i) ==
    IF HasCall(i, "rerank") THEN TheCall(i, "rerank").docs ELSE TheCall(i, "retrieve").docs

(***************************************************************************)
(* C5. batch_query over N queries, whatever retriever and generator do:    *)
(* one response per query processed so far, the i-th carrying the i-th     *)
(* query; a query one of whose stages raised has, at its position, empty   *)
(* sources, confidence 0.0 and an answer describing that failure; every    *)
(* other position holds exactly what that query's own stages returned      *)
(* (so it is what it would be without the failing query); and the call     *)
(* returns the list once all N queries have their response.                *)
(***************************************************************************)
C5_BatchOneResponsePerQuery ==
    rmode = "batch" =>
        /\ Len(responses) <= Len(queries)
        /\ \A i \in 1..Len(responses) :
              /\ responses[i].query = queries[i]
              /\ IF Raised(i)
                 THEN /\ responses[i].sources = <<>>
                      /\ responses[i].confidence = "0.0"
                      /\ responses[i].answer = ErrorAnswer(RaisedStage(i))
                 ELSE /\ responses[i].sources = FinalContext(i)
                      /\ responses[i].answer = TheCall(i, "generate").text
                      /\ responses[i].confidence = TheCall(i, "confidence").text
        /\ rpc = "done" =>
              /\ rag_ret.kind = "returned"
              /\ rag_ret.value = responses
              /\ Len(responses) = Len(queries)

\* A batch of two queries returned: the first failed, the second, processed
\* after it, has its own sources.
C5_Witness ==
    /\ rmode = "batch"
    /\ rpc = "done"
    /\ Len(queries) = 2
    /\ Raised(1)
    /\ ~Raised(2)
    /\ Len(rag_ret.value) = 2
    /\ rag_ret.value[2].sources # <<>>

(***************************************************************************)
(* C6. query: once a stage (retrieve, rerank, generate or                  *)
(* estimate_confidence) raises, no later stage of that query is called,    *)
(* and a direct call of query ends by raising that exception: it returns   *)
(* no response.                                                            *)
(***************************************************************************)
C6_QueryPropagates ==
    /\ \A k \in DOMAIN rcalls :
          rcalls[k].kind = "raise" =>
              \A j \in DOMAIN rcalls : j > k => rcalls[j].q # rcalls[k].q
    /\ rmode = "query" =>
          /\ Raised(1) =>
                /\ rpc = "done"
                /\ rag_ret.kind = "raised"
                /\ rag_ret.value = ExcText(RaisedStage(1))
          /\ rag_ret.kind = "returned" => ~Raised(1)

\* A direct call whose rerank stage raised has ended by raising.
C6_Witness ==
    /\ rmode = "query"
    /\ rpc = "done"
    /\ Raised(1)
    /\ RaisedStage(1) = "rerank"
    /\ rag_ret.kind = "raised"

(***************************************************************************)
(* C7. query calls the rerank hook exactly when the rerank flag is true    *)
(* and retrieval returned more than one result, and calls it with the      *)
(* retrieved list; the context handed to generate is then the list rerank  *)
(* returned, and otherwise exactly the retrieved list.                     *)
(***************************************************************************)
C7_RerankIffFlagAndSeveral ==
    \A k \in DOMAIN rcalls :
        LET c == rcalls[k]
            r == TheCall(c.q, "retrieve")
        IN /\ c.stage = "rerank" =>
                 /\ rerank
                 /\ r.kind = "ok"
                 /\ Len(r.docs) > 1
                 /\ c.arg = r.docs
           /\ c.stage = "generate" =>
                 IF rerank /\ Len(r.docs) > 1
                 THEN /\ HasCall(c.q, "rerank")
                      /\ TheCall(c.q, "rerank").kind = "ok"
                      /\ c.arg = TheCall(c.q, "rerank").docs
                 ELSE /\ ~HasCall(c.q, "rerank")
                      /\ c.arg = r.docs

\* generate received the reversed list the rerank hook returned.
C7_Witness ==
    \E k \in DOMAIN rcalls :
        /\ rcalls[k].stage = "generate"
        /\ HasCall(rcalls[k].q, "rerank")
        /\ rcalls[k].arg = Reverse(TheCall(rcalls[k].q, "retrieve").docs)
        /\ rcalls[k].arg # TheCall(rcalls[k].q, "retrieve").docs

(***************************************************************************)
(* CoordinatorAgent: reading the registry                                  *)
(***************************************************************************)
\* The positions of the registry whose agent offers capability c and is IDLE.
IdleCapable(c) ==
    {k \in DOMAIN registered_agents :
        /\ c \in {registered_agents[k].capabilities[j] :
                    j \in DOMAIN registered_agents[k].capabilities}
        /\ registered_agents[k].status = "IDLE"}

Earliest(S) == CHOOSE k \in S : \A m \in S : k <= m

(***************************************************************************)
(* C8. In every registry state, for every capability name,                 *)
(* find_capable_agent returns the agent at the earliest registry position  *)
(* that offers a capability of that name and is IDLE (agents before it     *)
(* that offer it but are not IDLE are passed over), and None when no agent *)
(* is both.                                                                *)
(***************************************************************************)
C8_FindEarliestIdleCapable ==
    \A c \in CapabilityNames \cup {"z"} :
        find_capable_agent(c) =
            IF IdleCapable(c) = {} THEN None
            ELSE registered_agents[Earliest(IdleCapable(c))].agent_id

\* The first agent offers x but is not IDLE, the second offers x and is IDLE:
\* the second is returned.
C8_Witness ==
    /\ Len(registered_agents) = 2
    /\ HasCapability(registered_agents[1], "x")
    /\ registered_agents[1].status = "BUSY"
    /\ IdleCapable("x") = {2}
    /\ find_capable_agent("x") = registered_agents[2].agent_id

\* The workflow the call that just returned handed back, if it was
\* orchestrate_workflow on tasks that all carry an id.
ReturnedWorkflowWithIds ==
    /\ coord_ret.kind = "workflow"
    /\ \A k \in DOMAIN coord_ret.value.tasks : coord_ret.value.tasks[k].id # Missing

(***************************************************************************)
(* C9. orchestrate_workflow (on tasks that carry ids): when position i is  *)
(* the first task whose capability no IDLE registered agent offers, the    *)
(* returned workflow is failed with the error naming that capability, its  *)
(* results hold entries for the tasks before i only, and task messages     *)
(* were created for the positions before i only.                           *)
(***************************************************************************)
C9_FailsAtFirstUnservedTask ==
    ReturnedWorkflowWithIds =>
        LET wf == coord_ret.value
            unserved == {k \in DOMAIN wf.tasks : IdleCapable(wf.tasks[k].capability) = {}}
        IN unserved # {} =>
              LET i == Earliest(unserved)
              IN /\ wf.status = "failed"
                 /\ wf.error = NoAgentError(wf.tasks[i].capability)
                 /\ DOMAIN wf.results = {wf.tasks[k].id : k \in 1..(i - 1)}
                 /\ {dispatched[m].position : m \in DOMAIN dispatched} = 1..(i - 1)

(***************************************************************************)
(* C10. orchestrate_workflow (on tasks that carry ids): when every task's  *)
(* capability is offered by some IDLE registered agent, the returned       *)
(* workflow is completed with an end time, and for every task id its       *)
(* results hold an entry naming the agent find_capable_agent returns for   *)
(* that task's capability.                                                 *)
(***************************************************************************)
C10_CompletesWhenAllServed ==
    ReturnedWorkflowWithIds =>
        LET wf == coord_ret.value
        IN (\A k \in DOMAIN wf.tasks : IdleCapable(wf.tasks[k].capability) # {}) =>
              /\ wf.status = "completed"
              /\ wf.end_time # Missing
              /\ \A k \in DOMAIN wf.tasks :
                    /\ wf.tasks[k].id \in DOMAIN wf.results
                    /\ wf.results[wf.tasks[k].id].agent =
                           find_capable_agent(wf.tasks[k].capability)

(***************************************************************************)
(* C11. Under every workflow id of the active-workflow map, whatever calls *)
(* follow (orchestrate_workflow with the same id included), a status       *)
(* 'completed' or 'failed' once observed stays what it is: the id is kept  *)
(* and its status neither switches nor goes back to 'running'.             *)
(***************************************************************************)
C11_StatusUnderIdMonotonic ==
    [][\A w \in DOMAIN active_workflows :
          active_workflows[w].status \in {"completed", "failed"} =>
              /\ w \in DOMAIN active_workflows'
              /\ active_workflows'[w].status = active_workflows[w].status]_vars

\* The entries of the registry for agent a.
EntriesOf(regs, a) == {k \in DOMAIN regs : regs[k].agent_id = a}

NamesOf(capabilities) == {capabilities[j] : j \in DOMAIN capabilities}

(***************************************************************************)
(* C12. register_agent overwrites: after register_agent(a, caps), whether  *)
(* a was registered before or not, the registry has exactly one entry for  *)
(* a, with capability list caps and status IDLE, and find_capable_agent    *)
(* does not return a for a capability name that is not in caps.            *)
(***************************************************************************)
C12_RegisterOverwrites ==
    [][\A a \in AgentIds, caps \in CapabilityLists :
          register_agent(a, caps) =>
              /\ Cardinality(EntriesOf(registered_agents', a)) = 1
              /\ \A k \in EntriesOf(registered_agents', a) :
                    /\ registered_agents'[k].capabilities = caps
                    /\ registered_agents'[k].status = "IDLE"
              /\ \A c \in CapabilityNames \ NamesOf(caps) : find_capable_agent(c)' # a]_vars

\* Agent a1 was given the task of capability y by a workflow, so it was
\* registered with y; it is now registered, once, with x alone, and
\* find_capable_agent does not return it for y.
C12_Witness ==
    /\ "w1" \in DOMAIN active_workflows
    /\ "t2" \in DOMAIN active_workflows["w1"].results
    /\ active_workflows["w1"].results["t2"].agent = "a1"
    /\ Cardinality(EntriesOf(registered_agents, "a1")) = 1
    /\ \A k \in EntriesOf(registered_agents, "a1") :
          /\ registered_agents[k].capabilities = <<"x">>
          /\ registered_agents[k].status = "IDLE"
    /\ find_capable_agent("y") # "a1"

(***************************************************************************)
(* C13. Whatever task descriptor CoordinatorAgent.execute_task or          *)
(* TestAgent.execute_task is given, it raises nothing and returns a        *)
(* TaskResult; if success is false the result is null and the error a      *)
(* non-empty string; if success is true there is no error. An unknown task *)
(* type gives success false.                                               *)
(***************************************************************************)
C13_TaskResultShape ==
    last_call.op = "execute_task" =>
        /\ last_call.ret.kind = "task_result"
        /\ LET r == last_call.ret.value
           IN /\ ~r.success => r.result = Nothing /\ r.error # None /\ r.error # ""
              /\ r.success => r.error = None
              /\ Get(last_call.arg, "type", None) \notin {"orchestrate", "chat", "analyze_text"}
                    => ~r.success

\* The coordinator was asked to orchestrate under an id that cannot be a key:
\* the exception leaving orchestrate_workflow came back as a failed TaskResult.
C13_Witness ==
    /\ last_call.op = "execute_task"
    /\ last_call.agent = "CoordinatorAgent"
    /\ Get(last_call.arg, "type", None) = "orchestrate"
    /\ last_call.ret.kind = "task_result"
    /\ ~last_call.ret.value.success
    /\ last_call.ret.value.error = TypeErrorUnhashable

(***************************************************************************)
(* C14. process_message, of the coordinator and of the test agent, raises  *)
(* for no inbound message: it returns a message or null, and a failure     *)
(* while handling the message comes back as a reply of type ERROR.         *)
(***************************************************************************)
C14_ProcessMessageNeverRaises ==
    last_call.op = "process_message" =>
        /\ last_call.ret.kind \in {"message", "None"}
        /\ (/\ last_call.agent = "TestAgent"
            /\ llm = None
            /\ Get(last_call.arg.content, "action", None) \in {"chat", "analyze_text"})
              => last_call.ret.value.message_type = "ERROR"

\* What C15 says of one call of CoordinatorAgent.process_message on message.
DispatchedAsDocumented(message) ==
    LET content == message.content
        action == Get(content, "action", None)
        ret == last_call'.ret
    IN IF action = "register"
       THEN /\ Cardinality(EntriesOf(registered_agents', message.sender)) = 1
            /\ \A k \in EntriesOf(registered_agents', message.sender) :
                  registered_agents'[k].capabilities = Get(content, "capabilities", <<>>)
            /\ ret.kind = "message"
            /\ ret.value.message_type = "RESPONSE"
            /\ ret.value.receiver = message.sender
            /\ ret.value.content = [status |-> "registered"]
            /\ UNCHANGED active_workflows
       ELSE IF action = "start_workflow"
       THEN /\ ret.kind = "message"
            /\ ret.value.message_type = "RESPONSE"
            /\ ret.value.receiver = message.sender
            /\ DOMAIN ret.value.content = {"workflow"}
            /\ LET workflow == ret.value.content.workflow
               IN /\ workflow.id = Get(content, "workflow_id", None)
                  /\ workflow.tasks = Get(content, "tasks", <<>>)
                  /\ workflow.status \in {"completed", "failed"}
                  /\ workflow.id \in DOMAIN active_workflows'
                  /\ active_workflows'[workflow.id] = workflow
            /\ UNCHANGED registered_agents
       ELSE /\ ret = ReturnedNone
            /\ UNCHANGED <<registered_agents, active_workflows>>

(***************************************************************************)
(* C15. CoordinatorAgent.process_message dispatches on content.action:     *)
(* 'register' registers the sender with the supplied capabilities and      *)
(* answers a RESPONSE to the sender with status 'registered';              *)
(* 'start_workflow' runs orchestrate_workflow on the supplied id and tasks *)
(* and answers a RESPONSE carrying the workflow, completed or failed; any  *)
(* other or missing action returns null and leaves the registry and the    *)
(* workflow map as they were.                                              *)
(***************************************************************************)
C15_DispatchOnAction ==
    [][\A message \in CoordinatorMessages :
          coordinator_process_message(message) => DispatchedAsDocumented(message)]_vars

\* The same for the messages whose workflow id can be a key of the map.
DispatchOnActionWithKeyIds ==
    [][\A message \in CoordinatorMessages :
          /\ coordinator_process_message(message)
          /\ Get(message.content, "workflow_id", None) # Unhashable
          => DispatchedAsDocumented(message)]_vars

(***************************************************************************)
(* C20. A reply produced in answer to a request carries a correlation id   *)
(* that, when present, is the id of the request it answers: so for every   *)
(* reply of TestAgent.process_message (the success, unknown-action and     *)
(* exception paths), which is also addressed to the request's sender, and  *)
(* for every message the coordinator and send_message create.              *)
(***************************************************************************)
C20_CorrelationIdIsRequestId ==
    /\ (last_call.op = "process_message" /\ last_call.ret.kind = "message") =>
          /\ last_call.ret.value.correlation_id \in {None, last_call.arg.id}
          /\ last_call.agent = "TestAgent" =>
                last_call.ret.value.receiver = last_call.arg.sender
    /\ last_call.op = "send_message" =>
          last_call.created.correlation_id = None

\* The test agent without model answered a chat request of a1 through its
\* exception path, with the request's id as correlation id.
C20_Witness ==
    /\ last_call.op = "process_message"
    /\ last_call.agent = "TestAgent"
    /\ Get(last_call.arg.content, "action", None) = "chat"
    /\ last_call.arg.sender = "a1"
    /\ last_call.ret.kind = "message"
    /\ last_call.ret.value.message_type = "ERROR"
    /\ last_call.ret.value.content = [error |-> LlmNotInitialized]
    /\ last_call.ret.value.correlation_id = last_call.arg.id
    /\ last_call.ret.value.receiver = "a1"

(***************************************************************************)
(* C16. In every RAGResponse query returns, sources is exactly the context *)
(* that was passed to generate and to estimate_confidence for that query,  *)
(* same elements in the same order: nothing is reordered, dropped or added *)
(* between generation and the returned response.                           *)
(***************************************************************************)
C16_SourcesAreGenerationContext ==
    /\ (rmode = "query" /\ rpc = "done" /\ rag_ret.kind = "returned") =>
          /\ rag_ret.value.sources = TheCall(1, "generate").arg
          /\ rag_ret.value.sources = TheCall(1, "confidence").arg
    /\ rmode = "batch" =>
          \A i \in 1..Len(responses) :
              ~Raised(i) =>
                  /\ responses[i].sources = TheCall(i, "generate").arg
                  /\ responses[i].sources = TheCall(i, "confidence").arg

\* A direct query returned two sources in the order rerank put them, the
\* reverse of the retrieved one, which is the order generate was given.
C16_Witness ==
    /\ rmode = "query"
    /\ rpc = "done"
    /\ rag_ret.kind = "returned"
    /\ TheCall(1, "retrieve").docs = <<"r1", "r2">>
    /\ HasCall(1, "rerank")
    /\ TheCall(1, "generate").arg = <<"r2", "r1">>
    /\ rag_ret.value.sources = <<"r2", "r1">>

\* The positions of responses that query returned with rerank requested: all
\* of a batch that did not fail, or the one of a direct call (kept in rag_ret).
RerankedResponses ==
    IF ~rerank THEN {}
    ELSE IF rmode = "batch" THEN {i \in 1..Len(responses) : ~Raised(i)}
    ELSE IF rmode = "query" /\ rpc = "done" /\ rag_ret.kind = "returned" THEN {1}
    ELSE {}

ResponseAt(i) == IF rmode = "batch" THEN responses[i] ELSE rag_ret.value

(***************************************************************************)
(* C17. query with rerank requested, for every retrieved list and every    *)
(* rerank hook: the response's sources have the length of the list the     *)
(* retriever returned, reranking neither truncating nor expanding it; and  *)
(* with a hook that reverses the order, sources is the reverse of the      *)
(* retrieval order.                                                        *)
(***************************************************************************)
C17_RerankKeepsLength ==
    \A i \in RerankedResponses :
        /\ Len(ResponseAt(i).sources) = Len(TheCall(i, "retrieve").docs)
        /\ (HasCall(i, "rerank")
              /\ TheCall(i, "rerank").docs = Reverse(TheCall(i, "retrieve").docs))
              => ResponseAt(i).sources = Reverse(TheCall(i, "retrieve").docs)

(***************************************************************************)
(* C17, amended. query with rerank requested: the response's sources are   *)
(* the list the rerank hook returned, or the retrieved list when the hook  *)
(* is not called; the pipeline itself neither truncates nor expands, so    *)
(* sources have the retrieved length whenever the hook returns as many     *)
(* results as it was given; and with a hook that reverses the order,       *)
(* sources is the reverse of the retrieval order.                          *)
(***************************************************************************)
C17_RerankOutputPassedThrough ==
    \A i \in RerankedResponses :
        LET retrieved == TheCall(i, "retrieve").docs
            sources == ResponseAt(i).sources
        IN IF HasCall(i, "rerank")
           THEN LET reranked == TheCall(i, "rerank").docs
                IN /\ sources = reranked
                   /\ Len(reranked) = Len(retrieved) => Len(sources) = Len(retrieved)
                   /\ reranked = Reverse(retrieved) => sources = Reverse(retrieved)
           ELSE sources = retrieved

\* A batch with rerank requested returned: for the first query the hook
\* reversed the two retrieved results, for the second it returned one of two.
C17_Witness ==
    /\ rmode = "batch"
    /\ rerank
    /\ rpc = "done"
    /\ RerankedResponses = {1, 2}
    /\ TheCall(1, "retrieve").docs = <<"r1", "r2">>
    /\ responses[1].sources = <<"r2", "r1">>
    /\ TheCall(2, "retrieve").docs = <<"r1", "r2">>
    /\ HasCall(2, "rerank")
    /\ responses[2].sources = <<"r1">>

(***************************************************************************)
(* C18. BaseAgent.run never ends on its own: whatever exceptions           *)
(* initialize, receive_message, process_message, send_message or           *)
(* periodic_tasks raise, status becomes ERROR, the backoff is waited and   *)
(* the loop goes on receiving; only cancellation from outside ends run.    *)
(***************************************************************************)
C18_RunEndsOnlyByCancellation ==
    /\ run_pc = "ended" => run_end = "cancelled"
    /\ (iter.end = "exception" /\ run_pc # "ended") =>
          /\ run_pc \in {"sleep", "receive"}
          /\ self_status = "ERROR"

(***************************************************************************)
(* C18, amended. Once initialize has returned, run never ends on its own:  *)
(* whatever exceptions receive_message, process_message, send_message or   *)
(* periodic_tasks raise, status becomes ERROR, the backoff is waited and   *)
(* the loop goes on receiving, and only cancellation from outside ends it; *)
(* an exception of initialize, awaited before the loop, ends run.          *)
(***************************************************************************)
C18_LoopEndsOnlyByCancellation ==
    [][/\ (run_pc \notin {"start", "ended"} /\ run_pc' = "ended") => run_end' = "cancelled"
       /\ (run_pc = "start" /\ run_pc' = "ended") => run_end' \in {"raised", "cancelled"}
       /\ (iter'.end = "exception" /\ iter' # iter) =>
             /\ self_status' = "ERROR"
             /\ run_pc' = "sleep"
       /\ (run_pc = "sleep" /\ run_pc' # "sleep") =>
             \/ run_pc' = "receive" /\ self_status' = "ERROR" /\ run_end' = ""
             \/ run_pc' = "ended" /\ run_end' = "cancelled"]_vars

\* process_message raised on the second message; the loop waited and is
\* receiving again, with status ERROR and the third message still queued.
C18_Witness ==
    /\ run_pc = "receive"
    /\ run_end = ""
    /\ iter.end = "exception"
    /\ iter.raised = "process_message"
    /\ iter.message.id = 2
    /\ self_status = "ERROR"
    /\ Len(message_queue) = 1

\* Whether s, a sequence of numbers, is strictly increasing.
StrictlyIncreasing(s) == \A j, k \in DOMAIN s : j < k => s[j] < s[k]

(***************************************************************************)
(* C19. BaseAgent.run, in each iteration: if a message was received,       *)
(* status is BUSY for as long as process_message runs, the reply           *)
(* process_message returned, if any, is sent to the sender of the received *)
(* message, and status is IDLE once the iteration has ended normally; if   *)
(* none was received within the timeout, periodic_tasks runs once and      *)
(* process_message is not called. Every queued message is handed to        *)
(* process_message at most once, in the order of the mailbox.              *)
(***************************************************************************)
C19_IterationAsDocumented ==
    /\ run_pc = "process" =>
          /\ self_status = "BUSY"
          /\ iter.message # NoMessage
    /\ run_pc = "send" =>
          /\ iter.response.present
          /\ iter.message # NoMessage
    /\ (iter.message # NoMessage /\ iter.end # "none") =>
          /\ iter.processed = 1
          /\ iter.periodic = 0
          /\ handled # <<>>
          /\ handled[Len(handled)] = iter.message.id
          /\ iter.end = "normal" =>
                /\ run_pc = "receive" => self_status = "IDLE"
                /\ IF iter.response.present
                   THEN iter.sent = <<Message(RunAgentId, iter.message.sender, "RESPONSE",
                                              iter.response.content, None)>>
                   ELSE iter.sent = <<>>
    /\ (iter.message = NoMessage /\ iter.end \in {"running", "normal"}) =>
          /\ iter.periodic = 1
          /\ iter.processed = 0
          /\ iter.sent = <<>>
    /\ StrictlyIncreasing(handled)
    /\ \A k \in DOMAIN handled : handled[k] \in 1..posted

\* The second queued message, sent by a1, was answered: the reply that
\* process_message addressed elsewhere went to a1, and status is IDLE again.
C19_Witness ==
    /\ run_pc = "receive"
    /\ handled = <<1, 2>>
    /\ iter.end = "normal"
    /\ iter.message = QueuedMessage(2, "a1")
    /\ iter.response = Reply("", "c1", "RESPONSE", None)
    /\ Len(iter.sent) = 1
    /\ iter.sent[1].receiver = "a1"
    /\ self_status = "IDLE"

(***************************************************************************)
(* C21. Round trip of a Message: for every Message, to_dict and then       *)
(* parsing the dictionary back gives a Message with the same id, sender,   *)
(* receiver, type, content and correlation id.                             *)
(***************************************************************************)
C21_MessageRoundTrip ==
    parsed # NotYet =>
        /\ parsed.id = original.id
        /\ parsed.sender = original.sender
        /\ parsed.receiver = original.receiver
        /\ parsed.message_type = original.message_type
        /\ parsed.content = original.content
        /\ parsed.correlation_id = original.correlation_id

\* The fields other than the type do come back as they were.
RoundTripButType ==
    parsed # NotYet =>
        /\ parsed.id = original.id
        /\ parsed.sender = original.sender
        /\ parsed.receiver = original.receiver
        /\ parsed.message_type = MessageTypeValue(original.message_type)
        /\ parsed.content = original.content
        /\ parsed.correlation_id = original.correlation_id

(***************************************************************************)
(* ETLPipeline: the order of the stage calls                               *)
(***************************************************************************)
StageRank(stage) ==
    CASE stage = "collect" -> 1
      [] stage = "validate" -> 2
      [] stage = "load" -> 3
      [] OTHER -> 4

\* The validation of document d has ended: a validator rejected it or raised
\* on it, or every registered validator returned true.
ChainEnded(d) ==
    \/ \E k \in 1..Len(calls) :
          calls[k].stage = "validate" /\ calls[k].doc = d /\ calls[k].kind # "true"
    \/ AllTrue(d)

(***************************************************************************)
(* C22. Within one run the stage calls are sequential and in canonical     *)
(* order: collectors in registration order; no validator call before the   *)
(* last collector call has ended; documents validated in working-set       *)
(* order, each by the validators in registration order; no loader call     *)
(* before the last validation has ended; loaders in registration order,    *)
(* each given the full validated set.                                      *)
(***************************************************************************)
C22_StagesInCanonicalOrder ==
    LET cc == StageCalls("collect")
        vc == StageCalls("validate")
        lc == StageCalls("load")
    IN /\ \A j, k \in 1..Len(calls) :
             j < k => StageRank(calls[j].stage) <= StageRank(calls[k].stage)
       /\ \A k \in 1..Len(cc) : cc[k].idx = k
       /\ vc # <<>> => Len(cc) = Len(collectors)
       /\ \A k \in 1..Len(vc) :
             /\ k = 1 => vc[k].doc = 1 /\ vc[k].idx = 1
             /\ k > 1 =>
                   \/ vc[k].doc = vc[k - 1].doc /\ vc[k].idx = vc[k - 1].idx + 1
                   \/ vc[k].doc = vc[k - 1].doc + 1 /\ vc[k].idx = 1
       /\ lc # <<>> =>
             /\ Len(cc) = Len(collectors)
             /\ \A d \in 1..Len(all_documents) : ChainEnded(d)
       /\ \A k \in 1..Len(lc) :
             /\ lc[k].idx = k
             /\ lc[k].val = validated_documents
             /\ Len(lc[k].val) = results.validated

\* Two collectors, two validators and two loaders were all called, on two
\* documents of which the second was rejected by the second validator.
C22_Witness ==
    /\ epc = "done"
    /\ Len(StageCalls("collect")) = 2
    /\ Len(all_documents) = 2
    /\ Len(StageCalls("validate")) = 4
    /\ Len(StageCalls("load")) = 2
    /\ validated_documents = <<all_documents[1]>>
    /\ calls[Len(calls) - 1].val = validated_documents

\* The entry was written as a whole by one register_agent call.
CompleteEntry(entry) ==
    /\ DOMAIN entry = {"agent_id", "capabilities", "status", "last_heartbeat", "by"}
    /\ entry.by.capabilities = entry.by.status
    /\ entry.by.status = entry.by.last_heartbeat
    /\ entry.last_heartbeat = entry.by.last_heartbeat

(***************************************************************************)
(* C23. With register_agent and orchestrate_workflow interleaved as        *)
(* concurrent coroutines on one coordinator, no find_capable_agent lookup  *)
(* sees a half-applied registration: for each agent id it sees either no   *)
(* entry or a complete one, whose capabilities, status and heartbeat all   *)
(* come from the same register_agent call.                                 *)
(***************************************************************************)
C23_NoHalfAppliedRegistration ==
    \A w \in Coroutines :
        /\ \A k \in DOMAIN views[w] : CompleteEntry(views[w][k])
        /\ \A j, k \in DOMAIN views[w] :
              views[w][j].agent_id = views[w][k].agent_id => j = k

\* While workflow 1 waited between its two lookups, a1 was registered again:
\* the second lookup saw the entry of the later call, whole.
C23_Witness ==
    /\ flows[1].pc = "done"
    /\ Len(flows[1].tasks) = 2
    /\ flows[1].status = "failed"
    /\ Len(flows[1].served) = 1
    /\ flows[1].served[1] = "a1"
    /\ register_calls = 2
    /\ Len(views[1]) = 1
    /\ views[1][1].agent_id = "a1"
    /\ views[1][1].by.capabilities = 2
    /\ views[1][1].capabilities = <<"x">>

(***************************************************************************)
(* ETLPipeline: rejected documents. A document is a position of the        *)
(* working set: the same document collected twice is validated twice.      *)
(***************************************************************************)
\* The call that rejected the document at position d, if there is one.
Rejections(d) ==
    {k \in 1..Len(calls) :
        calls[k].stage = "validate" /\ calls[k].doc = d /\ calls[k].kind # "true"}

Rejected(d) == Rejections(d) # {}

\* The documents at the decided positions that no validator rejected.
Kept ==
    LET ps == SelectSeq([d \in 1..Len(all_documents) |-> d],
                        LAMBDA d : Decided(d) /\ ~Rejected(d))
    IN [k \in 1..Len(ps) |-> all_documents[ps[k]]]

\* What C24 says of the rejected documents, but for the reporting.
RejectedIsDropped ==
    /\ \A k \in 1..Len(calls) : calls[k].stage = "load" => calls[k].val = Kept
    /\ epc # "collect" => results.validated = Len(Kept)
    /\ results.loaded = Len(Kept) * Len(StageCallsOf("load", {"true"}))
    /\ \A d \in 1..Len(all_documents) :
          Rejected(d) =>
              /\ Cardinality(Rejections(d)) = 1
              /\ \A r \in Rejections(d) :
                    \A k \in (r + 1)..Len(calls) :
                        calls[k].stage = "validate" => calls[k].doc # d

(***************************************************************************)
(* C24. A document rejected by any validator (false or raised) is never in *)
(* the list passed to a loader and is counted neither in 'validated' nor   *)
(* in 'loaded'; it is not validated again; and its rejection is reported   *)
(* in the 'errors' list.                                                   *)
(***************************************************************************)
C24_RejectedDroppedAndReported ==
    /\ RejectedIsDropped
    /\ \A d \in 1..Len(all_documents) :
          \A r \in Rejections(d) :
              \E e \in 1..Len(results.errors) :
                  /\ results.errors[e].kind \in {"reported", "validate"}
                  /\ results.errors[e].who = validators[calls[r].idx]

(***************************************************************************)
(* C24, amended. A document rejected by any validator (false or raised) is *)
(* never in the list passed to a loader and is counted neither in          *)
(* 'validated' nor in 'loaded'; it is not validated again; 'errors'        *)
(* receives for it exactly the strings get_validation_errors returned,     *)
(* which may be none, or the one 'Validation failed' string of a raise.    *)
(***************************************************************************)
C24_RejectedDroppedErrorsAsReturned ==
    /\ RejectedIsDropped
    /\ SelectSeq(results.errors, LAMBDA e : e.kind \in {"reported", "validate"})
          = ValidationErrorsOf(StageCalls("validate"))
    /\ \A d \in 1..Len(all_documents) :
          \A r \in Rejections(d) :
              Count(results.errors,
                    LAMBDA e : e.kind \in {"reported", "validate"}
                               /\ e.who = validators[calls[r].idx])
                >= IF calls[r].kind = "raise" THEN 1 ELSE Len(calls[r].val)

\* The first of two documents was rejected without any error string, the
\* second was kept and loaded alone: nothing in 'errors' tells of the first.
C24_Witness ==
    /\ epc = "done"
    /\ Len(all_documents) = 2
    /\ Rejected(1)
    /\ \A r \in Rejections(1) : calls[r].kind = "false" /\ calls[r].val = <<>>
    /\ ~Rejected(2)
    /\ StageCallsOf("load", {"true"}) # <<>>
    /\ results.loaded = 1
    /\ results.validated = 1
    /\ results.errors = <<>>

(***************************************************************************)
(* C25. run with no collector registered: collected and validated are 0,   *)
(* the collection and validation stages add no error, no validator is      *)
(* called, and every registered loader is still called once, with an empty *)
(* list of documents.                                                      *)
(***************************************************************************)
C25_NoCollectors ==
    (collectors = <<>> /\ epc # "idle") =>
        /\ results.collected = 0
        /\ results.validated = 0
        /\ all_documents = <<>>
        /\ StageCalls("collect") = <<>>
        /\ StageCalls("validate") = <<>>
        /\ \A e \in 1..Len(results.errors) : results.errors[e].kind \in {"load", "pipeline"}
        /\ \A k \in 1..Len(calls) : calls[k].stage = "load" => calls[k].val = <<>>
        /\ epc = "done" =>
              /\ etl_ret.kind = "returned"
              /\ etl_ret.value.collected = 0
              /\ etl_ret.value.validated = 0
              /\ \A l \in 1..Len(loaders) :
                    Count(calls, LAMBDA c : c.stage = "load" /\ c.idx = l) = 1

\* No collector, two validators, two loaders: run returned after calling
\* both loaders with the empty list, one of which answered true.
C25_Witness ==
    /\ epc = "done"
    /\ collectors = <<>>
    /\ Len(validators) = 2
    /\ Len(loaders) = 2
    /\ Len(StageCalls("load")) = 2
    /\ StageCallsOf("load", {"true"}) # <<>>
    /\ etl_ret.value.loaded = 0

\* The statement of the loop body that raises for the task at position k of
\* the returned workflow, "" if none does: the raise of line 243 when the
\* lookup result is None or empty, the KeyError of task['id'] otherwise.
RaisedBy(task) ==
    IF find_capable_agent(task.capability) \in {None, ""} THEN "no agent"
    ELSE IF task.id = Missing THEN "key error"
    ELSE ""

(***************************************************************************)
(* C26. orchestrate_workflow fails fast on any exception raised while the  *)
(* tasks are iterated (a task descriptor without 'id', for one): the       *)
(* workflow ends 'failed' with the exception's message as error, no task   *)
(* after the failing one is dispatched, the results recorded for the       *)
(* earlier tasks are kept, and the call returns the workflow: it does not  *)
(* raise.                                                                  *)
(***************************************************************************)
C26_FailFastOnException ==
    coord_ret.kind = "workflow" =>
        LET wf == coord_ret.value
            raising == {k \in DOMAIN wf.tasks : RaisedBy(wf.tasks[k]) # ""}
        IN /\ wf.status \in {"completed", "failed"}
           /\ wf.id \in DOMAIN active_workflows
           /\ active_workflows[wf.id] = wf
           /\ raising = {} <=> wf.status = "completed"
           /\ raising # {} =>
                 LET i == Earliest(raising)
                 IN /\ wf.status = "failed"
                    /\ wf.end_time = Missing
                    /\ wf.error = IF RaisedBy(wf.tasks[i]) = "key error" THEN KeyErrorId
                                  ELSE NoAgentError(wf.tasks[i].capability)
                    /\ DOMAIN wf.results = {wf.tasks[k].id : k \in 1..(i - 1)}
                    /\ \A k \in 1..(i - 1) :
                          wf.results[wf.tasks[k].id].agent =
                              find_capable_agent(wf.tasks[k].capability)
                    /\ \A m \in DOMAIN dispatched : dispatched[m].position <= i

\* The second task has no 'id': the workflow failed with the KeyError's
\* message and kept the result of the first task, served by a1.
C26_Witness ==
    /\ coord_ret.kind = "workflow"
    /\ Len(coord_ret.value.tasks) = 2
    /\ coord_ret.value.tasks[1].id = "t1"
    /\ coord_ret.value.tasks[2].id = Missing
    /\ coord_ret.value.status = "failed"
    /\ coord_ret.value.error = KeyErrorId
    /\ DOMAIN coord_ret.value.results = {"t1"}
    /\ coord_ret.value.results["t1"].agent = "a1"

(***************************************************************************)
(* ETLPipeline: the order of the working set                               *)
(***************************************************************************)
RECURSIVE Concat(_)
Concat(ls) == IF ls = <<>> THEN <<>> ELSE Head(ls) \o Concat(Tail(ls))

\* The positions of the working set, in the order validation was called on them
\* (one entry per validator call).
ValidatedPositions ==
    LET vc == StageCalls("validate") IN [k \in 1..Len(vc) |-> vc[k].doc]

(***************************************************************************)
(* C27. ETLPipeline.run builds the working document set as the             *)
(* concatenation, in collector registration order, of the lists returned   *)
(* by the collectors that succeeded, each list in its own emission order;  *)
(* documents are validated in that order, and the validated set handed to  *)
(* the loaders keeps that relative order.                                  *)
(***************************************************************************)
C27_WorkingSetInCollectorOrder ==
    LET ok == StageCallsOf("collect", {"ok"})
        vp == ValidatedPositions
    IN /\ \A j, k \in 1..Len(ok) : j < k => ok[j].idx < ok[k].idx
       /\ all_documents = Concat(Vals(ok))
       /\ \A j, k \in 1..Len(vp) : j < k => vp[j] <= vp[k]
       /\ \A k \in 1..Len(vp) : vp[k] \in 1..Len(all_documents)
       /\ epc \in {"load", "done"} /\ validators # <<>> =>
             \A d \in 1..Len(all_documents) : \E k \in 1..Len(vp) : vp[k] = d
       /\ validated_documents = Kept
       /\ \A k \in 1..Len(calls) :
             calls[k].stage = "load" => calls[k].val = validated_documents

\* Reached: two collectors returned different documents, the second registered
\* returning "d1" and the first "d2"; a validator accepted both and a loader
\* received them in collector order.
C27_Witness ==
    /\ epc = "done"
    /\ Vals(StageCallsOf("collect", {"ok"})) = << <<"d2">>, <<"d1">> >>
    /\ all_documents = <<"d2", "d1">>
    /\ Len(validators) = 1
    /\ ValidatedPositions = <<1, 2>>
    /\ \E k \in 1..Len(calls) :
          calls[k].stage = "load" /\ calls[k].kind = "true"
              /\ calls[k].val = <<"d2", "d1">>

(***************************************************************************)
(* ETLPipeline: parsers                                                    *)
(***************************************************************************)
\* The stages run() calls out to; the closing log call is "log".
CalledStages == {calls[k].stage : k \in 1..Len(calls)}

\* No step of a run (any step but a registration made while idle) changes
\* self.parsers.
RunLeavesParsers == ~(epc = "idle" /\ epc' = "idle") => parsers' = parsers

NoParserUsed ==
    /\ CalledStages \subseteq {"collect", "validate", "load", "log"}
    /\ results.parsed = 0
    /\ etl_ret.kind = "returned" => etl_ret.value.parsed = 0
    /\ parsers = [k \in 1..Len(parsers) |-> k]

(***************************************************************************)
(* C28. ETLPipeline.run never invokes a registered parser: however many    *)
(* parsers add_parser registered, the calls run makes are those of         *)
(* collectors, validators, loaders and the logger, the 'parsed' count of   *)
(* the summary is 0, and the parsers list is unchanged by the run.         *)
(***************************************************************************)
C28_ParsersNeverInvoked == []NoParserUsed /\ [][RunLeavesParsers]_vars

\* Reached: a run with two registered parsers collected, validated and loaded
\* a document and returned a summary.
C28_Witness ==
    /\ epc = "done"
    /\ Len(parsers) = MaxParsers
    /\ etl_ret.kind = "returned"
    /\ etl_ret.value.collected >= 1
    /\ etl_ret.value.validated >= 1
    /\ etl_ret.value.loaded >= 1
    /\ etl_ret.value.parsed = 0

(***************************************************************************)
(* ETLPipeline: the counts of the summary                                  *)
(***************************************************************************)
\* The loaders that returned true so far.
SuccessfulLoaders == Len(StageCallsOf("load", {"true"}))

\* The run went through the outer handler.
AbortedAtTopLevel(res) == \E k \in 1..Len(res.errors) : res.errors[k].kind = "pipeline"

CountsRelated(res) ==
    /\ res.validated <= res.collected
    /\ res.loaded = res.validated * SuccessfulLoaders

(***************************************************************************)
(* C29. ETLPipeline.run, for every run that does not abort at top level:   *)
(* validated <= collected and loaded = validated * (number of loaders      *)
(* that returned true): each successful loader adds the whole              *)
(* validated-set size, a failing loader adds nothing.                      *)
(***************************************************************************)
C29_CountRelations ==
    /\ ~AbortedAtTopLevel(results) => CountsRelated(results)
    /\ etl_ret.kind = "returned" /\ ~AbortedAtTopLevel(etl_ret.value) =>
          CountsRelated(etl_ret.value)
    /\ epc \in {"load", "done"} => results.validated = Len(validated_documents)

\* Reached: a run returned without aborting; of two collected documents one was
\* validated, both loaders returned true, and 'loaded' is 2, above 'validated'.
C29_Witness ==
    /\ epc = "done"
    /\ etl_ret.kind = "returned"
    /\ ~AbortedAtTopLevel(etl_ret.value)
    /\ etl_ret.value.validated = 1
    /\ etl_ret.value.collected = 2
    /\ SuccessfulLoaders = 2
    /\ etl_ret.value.loaded = 2
    /\ etl_ret.value.loaded > etl_ret.value.validated

(***************************************************************************)
(* ETLPipeline: the order of the 'errors' list                             *)
(***************************************************************************)
\* Where the entries of one stage stand in the list.
ErrorRank(e) ==
    CASE e.kind = "collect" -> 1
      [] e.kind \in {"reported", "validate"} -> 2
      [] e.kind = "load" -> 3
      [] OTHER -> 4

\* The entries the failed calls of the history give, in the order of the calls.
CollectionErrors ==
    LET cs == StageCallsOf("collect", {"raise"})
    IN [k \in 1..Len(cs) |-> ErrorMsg("collect", collectors[cs[k].idx], "Collection failed")]

LoadingErrors ==
    LET cs == StageCallsOf("load", {"false", "raise"})
    IN [k \in 1..Len(cs) |->
           ErrorMsg("load", loaders[cs[k].idx],
                    IF cs[k].kind = "false" THEN "Loading failed"
                    ELSE "Loading failed: exception")]

TopLevelErrors ==
    IF \E k \in 1..Len(calls) : calls[k].stage = "log" /\ calls[k].kind = "raise"
    THEN <<ErrorMsg("pipeline", 0, "ETL pipeline failed")>>
    ELSE <<>>

ErrorsInOrder(errors) ==
    /\ \A j, k \in 1..Len(errors) : j < k =>
          /\ ErrorRank(errors[j]) <= ErrorRank(errors[k])
          /\ errors[j].kind = errors[k].kind /\ errors[j].kind \in {"collect", "load"} =>
                errors[j].who < errors[k].who
    /\ Count(errors, LAMBDA e : ErrorRank(e) = 4) <= 1

(***************************************************************************)
(* C30. In the 'errors' list of ETLPipeline.run the entries stand in the   *)
(* order the failures occurred: the collection failures in collector       *)
(* registration order, then the validation entries in document order,      *)
(* then the loading failures in loader registration order; a top-level     *)
(* 'ETL pipeline failed' entry, if any, is last.                           *)
(***************************************************************************)
C30_ErrorsInOccurrenceOrder ==
    /\ results.errors = CollectionErrors \o ValidationErrorsOf(StageCalls("validate"))
                            \o LoadingErrors \o TopLevelErrors
    /\ ErrorsInOrder(results.errors)
    /\ \A j, k \in 1..Len(ValidatedPositions) :
          j < k => ValidatedPositions[j] <= ValidatedPositions[k]
    /\ etl_ret.kind = "returned" => etl_ret.value.errors = results.errors

\* Reached: the first collector raised and the second returned two documents;
\* the first document was rejected with two strings by the first validator, the
\* second accepted by it and failed by an exception of the second validator;
\* the first loader returned false, the second raised, and the closing log call
\* failed: seven entries, in that order.
C30_Witness ==
    /\ epc = "done"
    /\ etl_ret.kind = "returned"
    /\ etl_ret.value.errors =
          << ErrorMsg("collect", 1, "Collection failed"),
             ErrorMsg("reported", 1, "e1"),
             ErrorMsg("reported", 1, "e2"),
             ErrorMsg("validate", 2, "Validation failed"),
             ErrorMsg("load", 1, "Loading failed"),
             ErrorMsg("load", 2, "Loading failed: exception"),
             ErrorMsg("pipeline", 0, "ETL pipeline failed") >>

(***************************************************************************)
(* CoordinatorAgent: dispatch and the registry                             *)
(***************************************************************************)
\* The capability the k-th task message of the last workflow was sent for.
DispatchedCapability(ret, msgs, k) == ret.value.tasks[msgs[k].position].capability

\* The task messages of the workflow just returned went to agents the
\* registry still holds as IDLE and still finds first for the capability.
DispatchLeavesAgentsIdle ==
    coord_ret.kind = "workflow" =>
        /\ \A k \in DOMAIN dispatched :
              LET c == DispatchedCapability(coord_ret, dispatched, k)
                  a == dispatched[k].receiver
              IN /\ KeyIndex(a) # 0
                 /\ registered_agents[KeyIndex(a)].status = "IDLE"
                 /\ a = find_capable_agent(c)
        /\ \A j, k \in DOMAIN dispatched :
              DispatchedCapability(coord_ret, dispatched, j)
                    = DispatchedCapability(coord_ret, dispatched, k)
                 => dispatched[j].receiver = dispatched[k].receiver

\* A step that returns a workflow leaves the registry as it was.
OrchestrateLeavesRegistry ==
    coord_ret'.kind = "workflow" => registered_agents' = registered_agents

\* Two workflows run one after the other send the tasks of one capability to
\* the same agent.
NextWorkflowSameAgents ==
    coord_ret.kind = "workflow" /\ coord_ret'.kind = "workflow" =>
        \A j \in DOMAIN dispatched, k \in DOMAIN dispatched' :
            DispatchedCapability(coord_ret, dispatched, j)
                  = DispatchedCapability(coord_ret', dispatched', k)
               => dispatched[j].receiver = dispatched'[k].receiver

(***************************************************************************)
(* C31. orchestrate_workflow leaves the agent registry unchanged, so an    *)
(* agent selected for one task is still IDLE for the next: within one      *)
(* workflow all tasks requiring the same capability are dispatched to the  *)
(* same first-matching agent, and a following workflow is dispatched to    *)
(* the same agent again.                                                   *)
(***************************************************************************)
C31_DispatchLeavesRegistry ==
    /\ []DispatchLeavesAgentsIdle
    /\ [][OrchestrateLeavesRegistry /\ NextWorkflowSameAgents]_vars

\* Reached: two agents offer x, "a1" registered first; a workflow of two tasks
\* requiring x sent both to "a1", which is still IDLE.
C31_Witness ==
    /\ coord_ret.kind = "workflow"
    /\ coord_ret.value.status = "completed"
    /\ Len(registered_agents) = 2
    /\ registered_agents[1].agent_id = "a1"
    /\ registered_agents[1].status = "IDLE"
    /\ HasCapability(registered_agents[2], "x")
    /\ registered_agents[2].status = "IDLE"
    /\ Len(dispatched) = 2
    /\ \A k \in 1..2 :
          /\ DispatchedCapability(coord_ret, dispatched, k) = "x"
          /\ dispatched[k].receiver = "a1"

(***************************************************************************)
(* CoordinatorAgent.execute_task and the workflow's own status             *)
(***************************************************************************)
\* The last call was CoordinatorAgent.execute_task.
CoordinatorExecuted ==
    last_call.op = "execute_task" /\ last_call.agent = "CoordinatorAgent"

\* orchestrate_workflow returned to it: the task is of type 'orchestrate' and
\* its workflow id can be a dict key.
OrchestrateReturned(task) ==
    /\ Get(task, "type", None) = "orchestrate"
    /\ Get(task, "workflow_id", "<uuid>") # Unhashable

(***************************************************************************)
(* C32. CoordinatorAgent.execute_task with type 'orchestrate' returns a    *)
(* TaskResult with success true and the workflow as result whenever        *)
(* orchestrate_workflow returns, a workflow of status 'failed' included;   *)
(* success false comes only from an unknown task type or from an exception *)
(* escaping orchestrate_workflow.                                          *)
(***************************************************************************)
C32_SuccessWheneverWorkflowReturned ==
    CoordinatorExecuted =>
        LET task == last_call.arg
            r == last_call.ret.value
            wid == Get(task, "workflow_id", "<uuid>")
        IN /\ last_call.ret.kind = "task_result"
           /\ r.success <=> OrchestrateReturned(task)
           /\ OrchestrateReturned(task) =>
                 /\ wid \in DOMAIN active_workflows
                 /\ r.result = Some(active_workflows[wid])
                 /\ r.error = None
                 /\ active_workflows[wid].status \in {"completed", "failed"}
           /\ ~r.success =>
                 /\ r.result = Nothing
                 /\ r.error = IF Get(task, "type", None) = "orchestrate"
                              THEN TypeErrorUnhashable
                              ELSE UnknownTaskType(Get(task, "type", None))

\* Reached: an agent offering x is registered, the task list holds a task
\* without 'id': the workflow failed on the KeyError and execute_task returned
\* it with success true.
C32_Witness ==
    /\ CoordinatorExecuted
    /\ OrchestrateReturned(last_call.arg)
    /\ last_call.ret.value.success
    /\ last_call.ret.value.result.value.status = "failed"
    /\ last_call.ret.value.result.value.error = KeyErrorId

\* Reached as well: no agent offers the capability, the workflow failed, and
\* execute_task returned it with success true.
MissingCapabilityStillSuccess ==
    /\ CoordinatorExecuted
    /\ OrchestrateReturned(last_call.arg)
    /\ last_call.ret.value.success
    /\ last_call.ret.value.result.value.status = "failed"
    /\ last_call.ret.value.result.value.error = NoAgentError("x")

(***************************************************************************)
(* CoordinatorAgent: registering an agent again                            *)
(***************************************************************************)
\* What register_agent(a, caps) does to an agent the registry already holds.
ReRegistered(a, caps) ==
    LET k == KeyIndex(a)
    IN /\ Len(registered_agents') = Len(registered_agents)
       /\ registered_agents'[k].agent_id = a
       /\ registered_agents'[k].status = "IDLE"
       /\ registered_agents'[k].capabilities = caps
       /\ \A j \in DOMAIN registered_agents :
             j # k => registered_agents'[j] = registered_agents[j]
       /\ \A c \in NamesOf(caps) :
             /\ k \in IdleCapable(c)'
             /\ Truthy(a) /\ (\A j \in 1..(k - 1) : j \notin IdleCapable(c))
                   => find_capable_agent(c)' = a

(***************************************************************************)
(* C33. Registering an already registered agent again keeps the agent at   *)
(* its position in the scan order of find_capable_agent (it does not move  *)
(* behind the agents registered in between) and sets its status to IDLE    *)
(* whatever it was (BUSY, ERROR or OFFLINE), so that it can be dispatched  *)
(* to again.                                                               *)
(***************************************************************************)
C33_ReRegisterKeepsPlaceResetsStatus ==
    [][\A a \in AgentIds, caps \in CapabilityLists :
          register_agent(a, caps) /\ KeyIndex(a) # 0 => ReRegistered(a, caps)]_vars

\* Reached: "a1" is first in the registry and BUSY, an agent registered after
\* it offers x and is IDLE; registering "a1" again with x leaves it first, IDLE,
\* and the one find_capable_agent returns for x.
C33_Witness ==
    /\ Len(registered_agents) = 2
    /\ registered_agents[1].agent_id = "a1"
    /\ registered_agents[1].status = "BUSY"
    /\ IdleCapable("x") = {2}
    /\ ENABLED (/\ register_agent("a1", <<"x">>)
                /\ registered_agents'[1].agent_id = "a1"
                /\ registered_agents'[1].status = "IDLE"
                /\ registered_agents'[2] = registered_agents[2]
                /\ find_capable_agent("x")' = "a1")

(***************************************************************************)
(* BaseAgent.run: after an exception in the loop body                      *)
(***************************************************************************)
\* The iteration that raised: status ERROR, nothing sent, and its message is
\* neither in the queue again nor handed to process_message twice.
AfterLoopException ==
    /\ iter.end = "exception" =>
          /\ self_status = "ERROR"
          /\ iter.sent = <<>>
          /\ \A k \in DOMAIN message_queue : message_queue[k].id # iter.message.id
    /\ \A j, k \in DOMAIN handled : j < k => handled[j] < handled[k]
    /\ \A k \in DOMAIN message_queue : \A j \in DOMAIN handled :
          message_queue[k].id > handled[j]

\* Status ERROR ends only by receiving a message (BUSY); no step of an
\* iteration without message writes another status than ERROR; and IDLE is
\* entered only from BUSY, by an iteration with a message that ended normally.
ErrorUntilMessageProcessed ==
    /\ self_status = "ERROR" /\ self_status' # "ERROR" =>
          /\ self_status' = "BUSY"
          /\ handled' # handled
          /\ iter'.message # NoMessage
    /\ iter'.message = NoMessage /\ run_pc # "start" =>
          self_status' = self_status \/ self_status' = "ERROR"
    /\ self_status # "IDLE" /\ self_status' = "IDLE" =>
          /\ self_status = "BUSY"
          /\ iter'.message # NoMessage
          /\ iter'.message = iter.message
          /\ iter'.end = "normal"

(***************************************************************************)
(* C34. BaseAgent.run after an exception in the loop body: the status      *)
(* stays ERROR through every following iteration in which no message       *)
(* arrives and returns to IDLE only after a later message has been         *)
(* processed without exception; the message whose processing raised is not *)
(* queued again and no reply is sent for it.                               *)
(***************************************************************************)
C34_ErrorStaysUntilMessageProcessed ==
    []AfterLoopException /\ [][ErrorUntilMessageProcessed]_vars

\* Reached: process_message raised on the only message put; since then an
\* iteration without message has run periodic_tasks to its end, and the status
\* is still ERROR.
C34_Witness ==
    /\ posted = 1
    /\ handled = <<1>>
    /\ message_queue = <<>>
    /\ iter.message = NoMessage
    /\ iter.periodic = 1
    /\ iter.end = "normal"
    /\ run_pc = "receive"
    /\ self_status = "ERROR"

\* The state right after process_message raised.
ProcessMessageRaised ==
    /\ iter.end = "exception"
    /\ iter.raised = "process_message"
    /\ iter.message.id = 1
    /\ self_status = "ERROR"
    /\ iter.sent = <<>>
    /\ message_queue = <<>>

(***************************************************************************)
(* BaseAgent.run: what is forwarded of a reply                             *)
(***************************************************************************)
\* The message sent for the reply of the current iteration, if one was sent.
ForwardedAsNewResponse ==
    \A k \in DOMAIN iter.sent :
        LET sent == iter.sent[k]
            reply == iter.response
        IN /\ reply.present
           /\ sent.content = reply.content
           /\ sent.message_type = "RESPONSE"
           /\ sent.correlation_id = None
           /\ sent.id # reply.id
           /\ sent.sender = RunAgentId
           /\ sent.receiver = iter.message.sender

(***************************************************************************)
(* C35. When BaseAgent.run forwards a reply, the message it sends is a     *)
(* newly created Message of type RESPONSE carrying only the reply's        *)
(* content: the reply's own type (ERROR included), id and correlation id   *)
(* are not kept, so an ERROR reply of process_message goes to the original *)
(* sender as a RESPONSE without correlation id.                            *)
(***************************************************************************)
C35_ReplyForwardedAsNewResponse ==
    /\ ForwardedAsNewResponse
    /\ Len(iter.sent) <= 1
    /\ iter.end = "normal" /\ iter.response.present => Len(iter.sent) = 1

\* Reached: process_message returned an ERROR reply naming the request and
\* addressed elsewhere; what was sent is a RESPONSE to the message's sender,
\* with the reply's content, a new id and no correlation id.
C35_Witness ==
    /\ iter.end = "normal"
    /\ iter.message.sender = "a1"
    /\ iter.response = Reply("", "c1", "ERROR", "<request id>")
    /\ iter.sent = <<[id |-> "<uuid>", sender |-> RunAgentId, receiver |-> "a1",
                      message_type |-> "RESPONSE", content |-> "c1",
                      correlation_id |-> None]>>

(***************************************************************************)
(* CoordinatorAgent: the shape of an ended workflow                        *)
(***************************************************************************)
\* A dict key is present.
Has(value) == value # Missing

TerminalShape(wf) ==
    \/ wf.status = "completed" /\ Has(wf.end_time) /\ ~Has(wf.error)
    \/ wf.status = "failed" /\ Has(wf.error) /\ ~Has(wf.end_time)

(***************************************************************************)
(* C36. Every workflow orchestrate_workflow returns has one of two shapes: *)
(* status 'completed' with an end_time and no error, or status 'failed'    *)
(* with an error and no end_time; 'running' is never returned; the         *)
(* returned workflow is the one stored in active_workflows under its id,   *)
(* and no entry of that map is ever removed.                               *)
(***************************************************************************)
C36_ReturnedWorkflowTerminal ==
    /\ [](/\ coord_ret.kind = "workflow" =>
               /\ TerminalShape(coord_ret.value)
               /\ coord_ret.value.status # "running"
               /\ coord_ret.value.id \in DOMAIN active_workflows
               /\ active_workflows[coord_ret.value.id] = coord_ret.value
          /\ \A w \in DOMAIN active_workflows : TerminalShape(active_workflows[w]))
    /\ [][DOMAIN active_workflows \subseteq DOMAIN active_workflows']_vars

\* Reached: the first task was served by a1 and no agent offers the second
\* task's capability; the workflow came back failed, with the error, without
\* end_time, and is the one stored under w1.
C36_Witness ==
    /\ coord_ret.kind = "workflow"
    /\ coord_ret.value.status = "failed"
    /\ coord_ret.value.error = NoAgentError("y")
    /\ coord_ret.value.end_time = Missing
    /\ DOMAIN coord_ret.value.results = {"t1"}
    /\ active_workflows["w1"] = coord_ret.value

\* Reached as well: the other shape.
CompletedShapeReturned ==
    /\ coord_ret.kind = "workflow"
    /\ coord_ret.value.status = "completed"
    /\ coord_ret.value.end_time = "now"
    /\ coord_ret.value.error = Missing
    /\ Len(coord_ret.value.tasks) = 2
    /\ active_workflows["w1"] = coord_ret.value

(***************************************************************************)
(* AgentRegistry.start_all: one agent's failure and the others             *)
(***************************************************************************)
\* Some task ended with an exception.
SomeTaskRaised == \E k \in DOMAIN started_tasks : started_tasks[k].state = "raised"

\* One task per registered agent, in the registry's order; start_all has not
\* raised; it returns only when every task is done; and beside a task that
\* raised, a task that is in its loop can go on iterating.
StartAllIsolatesAgents ==
    /\ start_all_pc # "raised"
    /\ start_all_pc # "idle" =>
          /\ Len(started_tasks) = Len(registry_agents)
          /\ \A k \in DOMAIN started_tasks : started_tasks[k].agent_id = registry_agents[k]
    /\ start_all_pc = "returned" =>
          \A k \in DOMAIN started_tasks : started_tasks[k].state \in DoneStates
    /\ \A k \in DOMAIN started_tasks :
          /\ start_all_pc = "gather"
          /\ SomeTaskRaised
          /\ started_tasks[k].state = "loop"
          /\ started_tasks[k].iterations < MaxIterations
          => ENABLED task_iterate(k, "normal")

\* The step in which a task ends with an exception changes no other task and
\* does not end start_all; a task that is not done is cancelled only by its own
\* cancellation or by that of start_all.
RaiseTouchesNoOtherTask ==
    \A k \in DOMAIN started_tasks :
        /\ k \in DOMAIN started_tasks'
        /\ started_tasks[k].state # "raised" /\ started_tasks'[k].state = "raised" =>
              /\ start_all_pc' = start_all_pc
              /\ \A j \in DOMAIN started_tasks : j # k => started_tasks'[j] = started_tasks[j]
        /\ started_tasks[k].state # "cancelled" /\ started_tasks'[k].state = "cancelled" =>
              \/ start_all_pc' = "cancelled"
              \/ \A j \in DOMAIN started_tasks : j # k => started_tasks'[j] = started_tasks[j]

(***************************************************************************)
(* C37. AgentRegistry.start_all runs every registered agent's run loop as  *)
(* its own concurrent task: an agent whose run ends with an exception (one *)
(* raised by initialize, for example) neither cancels nor stops the loops  *)
(* of the other agents, and start_all itself does not raise because of it. *)
(***************************************************************************)
C37_StartAllIsolatesAgents ==
    []StartAllIsolatesAgents /\ [][RaiseTouchesNoOtherTask]_vars

\* Reached: the first agent's initialize raised and its task is over; the
\* second agent's loop has iterated since it started, can iterate again, and
\* start_all is still waiting.
C37_Witness ==
    /\ start_all_pc = "gather"
    /\ Len(started_tasks) = 2
    /\ started_tasks[1].state = "raised"
    /\ started_tasks[2].state = "loop"
    /\ started_tasks[2].iterations = 1
    /\ ENABLED task_iterate(2, "normal")

\* Reached as well: every task is over, one by an exception, and start_all
\* returned.
StartAllReturnedAfterRaise ==
    /\ start_all_pc = "returned"
    /\ SomeTaskRaised

(***************************************************************************)
(* RAGPipeline.batch_query: one query after another                        *)
(***************************************************************************)
\* The call ended its query: a stage raised, or estimate_confidence returned.
EndsQuery(c) == c.kind = "raise" \/ c.stage = "confidence"

\* The stage that may follow a stage that returned, within one query.
FollowsInQuery(before, after) ==
    \/ before = "retrieve" /\ after \in {"rerank", "generate"}
    \/ before = "rerank" /\ after = "generate"
    \/ before = "generate" /\ after = "confidence"

\* The history of one batch: the first call is retrieve for the first query;
\* every later call either continues the query of the call before it with the
\* following stage, that call having returned, or is retrieve for the next
\* query, the call before it having ended its query.
OneQueryAtATime(cs) ==
    /\ cs # <<>> => cs[1].q = 1 /\ cs[1].stage = "retrieve"
    /\ \A k \in 2..Len(cs) :
          \/ /\ cs[k].q = cs[k - 1].q
             /\ ~EndsQuery(cs[k - 1])
             /\ FollowsInQuery(cs[k - 1].stage, cs[k].stage)
          \/ /\ cs[k].q = cs[k - 1].q + 1
             /\ EndsQuery(cs[k - 1])
             /\ cs[k].stage = "retrieve"

(***************************************************************************)
(* C38. RAGPipeline.batch_query processes the queries strictly one after   *)
(* another in list order: no stage of query i+1 is invoked before query i  *)
(* has produced its response or its substitute error response, and within  *)
(* each query the stages are invoked in the order retrieve, rerank (if     *)
(* applicable), generate, estimate_confidence.                             *)
(***************************************************************************)
C38_BatchOneQueryAtATime ==
    rmode = "batch" =>
        LET cs == rcalls
            ended == Len(SelectSeq(cs, EndsQuery))
        IN /\ OneQueryAtATime(cs)
           /\ Len(responses) = ended
           /\ \A k \in DOMAIN cs : cs[k].q \in 1..Len(queries)
           /\ \A k \in DOMAIN cs :
                 cs[k].q = Len(SelectSeq(SubSeq(cs, 1, k - 1), EndsQuery)) + 1
           /\ \A k \in 2..Len(cs) :
                 cs[k - 1].stage = "retrieve" /\ cs[k].q = cs[k - 1].q =>
                    (cs[k].stage = "rerank" <=> NeedsRerank(rerank, cs[k - 1].docs))
           /\ rpc = "done" => ended = Len(queries)
           /\ rpc # "done" => qi = ended + 1

\* Reached: a batch of two queries; the first went through retrieve, rerank,
\* generate and estimate_confidence, the second failed in generate after
\* retrieve; the six calls were made in that order and two responses exist.
C38_Witness ==
    /\ rmode = "batch"
    /\ rpc = "done"
    /\ Len(queries) = 2
    /\ [k \in DOMAIN rcalls |-> <<rcalls[k].q, rcalls[k].stage, rcalls[k].kind>>] =
          << <<1, "retrieve", "ok">>, <<1, "rerank", "ok">>, <<1, "generate", "ok">>,
             <<1, "confidence", "ok">>, <<2, "retrieve", "ok">>,
             <<2, "generate", "raise">> >>
    /\ Len(responses) = 2

====
